---------------------------- MODULE Spec2Model ----------------------------
(***************************************************************************)
(* Model of the solo radiative-transfer package: the Atmosphere and        *)
(* Geometry value classes, their optical-depth and transmittance methods   *)
(* and the radtran solver.                                                 *)
(*                                                                         *)
(* Numbers.  The program computes in IEEE double precision.  The model     *)
(* computes in decimal fixed point: the integer x stands for the real      *)
(* x / Scale, products and quotients are truncated towards zero, and the   *)
(* three special values of IEEE arithmetic (NaN, +inf, -inf) are kept as   *)
(* sentinels with their IEEE rules (0/0 = NaN, x/0 = inf, NaN absorbs,     *)
(* pow(x, 0) = 1).  exp, log, sqrt, cos and sin are computed by range      *)
(* reduction and series to the last fixed-point digit.                     *)
(*                                                                         *)
(* Arrays.  A numpy array is a record [kind, shape, data] with the data in   *)
(* row-major order; binary operations broadcast as numpy does and an       *)
(* operation on shapes that cannot be broadcast gives the array BadArray,  *)
(* which the calling method turns into the ValueError numpy raises.        *)
(***************************************************************************)
EXTENDS Integers, Sequences, FiniteSets, TLC

-----------------------------------------------------------------------------
(* Fixed-point arithmetic with IEEE special values                         *)

Scale == 10^6
Kilo  == 10^3

PInf == 2147483646 + 1
NInf == 0 - PInf
NaN  == NInf - 1

IsNaN(x)    == x = NaN
IsInf(x)    == x = PInf \/ x = NInf
IsFinite(x) == ~IsNaN(x) /\ ~IsInf(x)

Abs(x) == IF x < 0 THEN 0 - x ELSE x
Sgn(x) == IF x < 0 THEN 0 - 1 ELSE IF x > 0 THEN 1 ELSE 0
Min(a, b) == IF a <= b THEN a ELSE b
Max(a, b) == IF a >= b THEN a ELSE b

\* floor(a * b / Scale) for a, b >= 0, without leaving 32 bits
MulAbs(a, b) ==
    LET a1 == a \div Kilo  a0 == a % Kilo
        b1 == b \div Kilo  b0 == b % Kilo
        x  == a1 * b0      y  == a0 * b1
        lo == (a0 * b0) \div Kilo
    IN  a1 * b1 + (x \div Kilo) + (y \div Kilo)
          + (((x % Kilo) + (y % Kilo) + lo) \div Kilo)

\* (a * b) modulo Scale is zero, for a, b >= 0
MulExact(a, b) ==
    LET a1 == a \div Kilo  a0 == a % Kilo
        b1 == b \div Kilo  b0 == b % Kilo
        x  == a1 * b0      y  == a0 * b1
        z  == a0 * b0
    IN  (z % Kilo) = 0 /\ (((x % Kilo) + (y % Kilo) + (z \div Kilo)) % Kilo) = 0

\* the pair <<floor(m * Kilo / b), (m * Kilo) mod b>> for 0 <= m < b, without
\* leaving 32 bits: with b = Kilo * q + r and m = k * q + s,
\* m * Kilo = k * b + (Kilo * s - r * k)
DivStep(m, b) ==
    IF b < Scale THEN <<(m * Kilo) \div b, (m * Kilo) % b>>
    ELSE LET q == b \div Kilo
             k == m \div q
             t == (Kilo * (m % q)) - ((b % Kilo) * k)
         IN  IF t < 0 THEN <<k - 1, t + b>> ELSE <<k, t>>

\* floor(a * Scale / b) for a >= 0, b > 0: long division, three digits a step
DivAbs(a, b) ==
    LET d1 == DivStep(a % b, b)
        d0 == DivStep(d1[2], b)
    IN  ((a \div b) * Scale) + (d1[1] * Kilo) + d0[1]

Neg(a) ==
    IF IsNaN(a) THEN NaN
    ELSE IF a = PInf THEN NInf
    ELSE IF a = NInf THEN PInf
    ELSE 0 - a

Add(a, b) ==
    IF IsNaN(a) \/ IsNaN(b) THEN NaN
    ELSE IF IsInf(a) /\ IsInf(b) THEN (IF a = b THEN a ELSE NaN)
    ELSE IF IsInf(a) THEN a
    ELSE IF IsInf(b) THEN b
    ELSE a + b

Sub(a, b) == Add(a, Neg(b))

Mul(a, b) ==
    IF IsNaN(a) \/ IsNaN(b) THEN NaN
    ELSE IF IsInf(a) \/ IsInf(b)
         THEN (IF a = 0 \/ b = 0 THEN NaN
               ELSE IF Sgn(a) * Sgn(b) > 0 THEN PInf ELSE NInf)
    ELSE Sgn(a) * Sgn(b) * MulAbs(Abs(a), Abs(b))

Div(a, b) ==
    IF IsNaN(a) \/ IsNaN(b) THEN NaN
    ELSE IF IsInf(a) THEN (IF IsInf(b) THEN NaN
                           ELSE IF (Sgn(a) > 0) = (b >= 0) THEN PInf ELSE NInf)
    ELSE IF IsInf(b) THEN 0
    ELSE IF b = 0 THEN (IF a = 0 THEN NaN ELSE IF a > 0 THEN PInf ELSE NInf)
    ELSE Sgn(a) * Sgn(b) * DivAbs(Abs(a), Abs(b))

\* the fixed-point number n + m / Scale and the integer n as a number
Num(n, m) == n * Scale + m
Int2Num(n) == n * Scale

\* a finite number divided by the positive integer n
DivInt(t, n) == Sgn(t) * (Abs(t) \div n)

LN2    == Num(0, 693147)
\* np.pi / 2, np.pi and 2 * np.pi: halving and doubling are exact in binary
\* floating point, and so they are here
HALF_PI == Num(1, 570796)
PI      == 2 * HALF_PI
TWO_PI  == 2 * PI

\* the series 1 - f/1 * (1 - f/2 * (1 - ... (1 - f/n))) = exp(-f), 0 <= f < 1,
\* from the innermost term: acc is the value of the terms after the k-th
\* (the test on acc has the term evaluated before the next one is entered)
RECURSIVE ExpSeries(_, _, _)
ExpSeries(f, k, acc) ==
    IF k = 0 \/ acc > Scale THEN acc
    ELSE ExpSeries(f, k - 1, Scale - DivInt(MulAbs(f, acc), k))

RECURSIVE Halve(_, _)
Halve(x, k) == IF k = 0 \/ x = 0 THEN x ELSE Halve(x \div 2, k - 1)

\* exp(-y) for a finite y >= 0: exp(-y) = 2^-k * exp(-f), y = k ln 2 + f
ExpNeg(y) ==
    IF y >= 21 * Scale THEN 0
    ELSE Halve(ExpSeries(y % LN2, 12, Scale), y \div LN2)

\* 1 / e for e = exp(-x) > 0
ExpInv(e) == IF e > 0 THEN DivAbs(Scale, e) ELSE PInf

\* np.exp; a result beyond the fixed-point range is +inf
Exp(x) ==
    IF IsNaN(x) THEN NaN
    ELSE IF x = PInf THEN PInf
    ELSE IF x = NInf THEN 0
    ELSE IF x <= 0 THEN ExpNeg(0 - x)
    ELSE IF x >= 7 * Scale THEN PInf
    ELSE ExpInv(ExpNeg(x))

\* the series 1/3 + z^2/5 + z^4/7 + ..., from the innermost term: acc is the
\* value of the terms after the one in 1/k
RECURSIVE LnSeries(_, _, _)
LnSeries(z2, k, acc) ==
    IF k < 3 \/ acc > Scale THEN acc
    ELSE LnSeries(z2, k - 2, DivInt(Scale, k) + MulAbs(z2, acc))

\* ln((1 + z) / (1 - z)) = 2 z (1 + z^2 (1/3 + z^2/5 + ...)) for 0 <= z < 1/3
LnRatio(z, z2) == 2 * MulAbs(z, Scale + MulAbs(z2, LnSeries(z2, 13, 0)))
LnUnit(z) == LnRatio(z, MulAbs(z, z))

\* ln(x * 2^n) for a finite x > 0: halve or double x into [1, 2)
RECURSIVE LnPos(_, _)
LnPos(x, n) ==
    IF x >= 2 * Scale THEN LnPos(x \div 2, n + 1)
    ELSE IF x < Scale THEN LnPos(x + x, n - 1)
    ELSE (n * LN2) + LnUnit(DivAbs(x - Scale, x + Scale))

\* np.log
Ln(x) ==
    IF IsNaN(x) THEN NaN
    ELSE IF x = PInf THEN PInf
    ELSE IF x < 0 THEN NaN
    ELSE IF x = 0 THEN NInf
    ELSE LnPos(x, 0)

\* the largest r in lo..hi with r * r <= x * Scale
RECURSIVE SqrtSearch(_, _, _)
SqrtSearch(x, lo, hi) ==
    IF lo = hi THEN lo
    ELSE LET mid == lo + ((hi - lo + 1) \div 2)
             sq  == MulAbs(mid, mid)
         IN  IF sq < x \/ (sq = x /\ MulExact(mid, mid))
             THEN SqrtSearch(x, mid, hi)
             ELSE SqrtSearch(x, lo, mid - 1)

\* np.sqrt
Sqrt(x) ==
    IF IsNaN(x) THEN NaN
    ELSE IF x = PInf THEN PInf
    ELSE IF x < 0 THEN NaN
    ELSE SqrtSearch(x, 0, 46340 * Kilo)

IsInteger(a) == IsFinite(a) /\ (Abs(a) % Scale) = 0

RECURSIVE IntPow(_, _)
IntPow(x, n) == IF n = 0 THEN Scale ELSE Mul(x, IntPow(x, n - 1))

\* x ** a as numpy (C pow) computes it
Pow(x, a) ==
    IF a = 0 \/ x = Scale THEN Scale
    ELSE IF IsNaN(x) \/ IsNaN(a) THEN NaN
    ELSE IF a = Scale THEN x
    ELSE IF IsInf(a)
         THEN (IF Abs(x) = Scale THEN Scale
               ELSE IF (Abs(x) < Scale /\ ~IsInf(x)) = (a = PInf) THEN 0 ELSE PInf)
    ELSE IF x = PInf THEN (IF a > 0 THEN PInf ELSE 0)
    ELSE IF x = 0 THEN (IF a > 0 THEN 0 ELSE PInf)
    ELSE IF x < 0
         THEN (IF ~IsInteger(a) THEN NaN
               ELSE IF x = NInf
                    THEN (IF a < 0 THEN 0
                          ELSE IF ((a \div Scale) % 2) = 1 THEN NInf ELSE PInf)
               ELSE IF a > 0 THEN IntPow(x, a \div Scale)
               ELSE Div(Scale, IntPow(x, (0 - a) \div Scale)))
    ELSE Exp(Mul(a, Ln(x)))

\* the series 1 - t^2/2 (1 - t^2/12 (1 - t^2/30 ...)) = cos t and
\* t (1 - t^2/6 (1 - t^2/20 ...)) = sin t, 0 <= t <= pi/2, from the innermost
\* term: acc is the value of the terms after the k-th
RECURSIVE TrigSeries(_, _, _, _)
TrigSeries(t2, k, odd, acc) ==
    IF k = 0 \/ acc > Scale THEN acc
    ELSE TrigSeries(t2, k - 1, odd,
                    Scale - DivInt(MulAbs(t2, acc),
                                   (2 * k - 1 + odd) * (2 * k + odd)))

CosT(t) == TrigSeries(MulAbs(t, t), 8, 0, Scale)
SinT(t) == MulAbs(t, TrigSeries(MulAbs(t, t), 8, 1, Scale))

\* np.cos and np.sin of a finite angle, reduced to one turn and one quadrant
Cos(x) ==
    IF ~IsFinite(x) THEN NaN
    ELSE LET r == Abs(x) % TWO_PI
         IN  IF r <= HALF_PI THEN CosT(r)
             ELSE IF r <= PI THEN 0 - CosT(PI - r)
             ELSE IF r <= PI + HALF_PI THEN 0 - CosT(r - PI)
             ELSE CosT(TWO_PI - r)

Sin(x) ==
    IF ~IsFinite(x) THEN NaN
    ELSE LET r == Abs(x) % TWO_PI
             v == IF r <= HALF_PI THEN SinT(r)
                  ELSE IF r <= PI THEN SinT(PI - r)
                  ELSE IF r <= PI + HALF_PI THEN 0 - SinT(r - PI)
                  ELSE 0 - SinT(TWO_PI - r)
         IN  Sgn(x) * v

\* np.radians (beyond the full circle the division comes first, to stay
\* within the integers)
Radians(deg) ==
    IF ~IsFinite(deg) THEN deg
    ELSE IF Abs(deg) <= 360 * Scale THEN DivInt(Mul(deg, PI), 180)
    ELSE Mul(DivInt(deg, 180), PI)

-----------------------------------------------------------------------------
(* numpy arrays: shape, row-major data, broadcasting                       *)

RECURSIVE Prod(_)
Prod(s) == IF s = <<>> THEN 1 ELSE s[1] * Prod(Tail(s))

\* (the concatenations make TLC evaluate the shape and the data at once)
Arr(shape, data) ==
    [kind |-> "array", shape |-> <<>> \o shape, data |-> <<>> \o data]
None     == [kind |-> "none", shape |-> <<>>, data |-> <<>>]
BadArray == [kind |-> "bad", shape |-> <<>>, data |-> <<>>]

IsNone(A) == A.kind = "none"
IsBad(A)  == A.kind = "bad"

\* Python evaluates the arguments of a call before it enters the call: val
\* once the values args are known
Strict(args, val) == <<args, val>>[2]

\* name = x: the expression is evaluated once and Op sees its value
Bind(x, Op(_)) == CHOOSE y \in {Op(v) : v \in {x}} : TRUE

Sc(v)    == Arr(<<>>, <<v>>)
Vec(seq) == Arr(<<Len(seq)>>, seq)
Full(shape, v) == Arr(shape, [k \in 1..Prod(shape) |-> v])

\* np.shape, np.ndim, np.size
Shape(A) == A.shape
NDim(A)  == Len(A.shape)
Size(A)  == Len(A.data)

\* np.atleast_1d and np.atleast_2d
AtLeast1d(A) == IF NDim(A) = 0 THEN Arr(<<1>>, A.data) ELSE A
AtLeast2d(A) ==
    IF NDim(A) = 0 THEN Arr(<<1, 1>>, A.data)
    ELSE IF NDim(A) = 1 THEN Arr(<<1>> \o A.shape, A.data)
    ELSE A

\* x[:, None] of a 1-d x, x[:, None, None] of a 1-d x, x[:, None, :] of a 2-d x
Col(A)   == IF IsBad(A) THEN A ELSE Arr(<<A.shape[1], 1>>, A.data)
Col3(A)  == IF IsBad(A) THEN A ELSE Arr(<<A.shape[1], 1, 1>>, A.data)
MidAxis(A) == IF IsBad(A) THEN A ELSE Arr(<<A.shape[1], 1, A.shape[2]>>, A.data)

\* np.squeeze: drop every axis of length 1
Squeeze(A) ==
    IF IsBad(A) THEN A ELSE Arr(SelectSeq(A.shape, LAMBDA d : d # 1), A.data)

\* the shape s with leading axes of length 1 up to rank n
RECURSIVE PadShape(_, _)
PadShape(s, n) == IF Len(s) >= n THEN s ELSE PadShape(<<1>> \o s, n)

\* numpy's broadcasting rule on two shapes
CanBroadcast(sa, sb) ==
    LET n == Max(Len(sa), Len(sb))
        a == PadShape(sa, n)
        b == PadShape(sb, n)
    IN  \A i \in 1..n : a[i] = b[i] \/ a[i] = 1 \/ b[i] = 1

BroadcastShape(sa, sb) ==
    LET n == Max(Len(sa), Len(sb))
        a == PadShape(sa, n)
        b == PadShape(sb, n)
    IN  [i \in 1..n |-> IF a[i] = 1 THEN b[i] ELSE a[i]]

\* the position in the data of an array of shape s (padded to the rank of
\* the result shape rs) of the element that result element k is computed from
Source(k, rs, s) ==
    LET n == Len(rs)
        p == PadShape(s, n)
        Stride(sh, i) == Prod(SubSeq(sh, i + 1, n))
        RECURSIVE Off(_)
        Off(i) ==
            IF i > n THEN 0
            ELSE (IF p[i] = 1 THEN 0
                  ELSE (((k - 1) \div Stride(rs, i)) % rs[i]) * Stride(p, i))
                 + Off(i + 1)
    IN  1 + Off(1)

\* an elementwise unary and binary operation
Map1(Op(_), A) ==
    IF IsBad(A) THEN BadArray
    ELSE Arr(A.shape, [k \in 1..Size(A) |-> Op(A.data[k])])

Zip(Op(_, _), A, B, rs) ==
    Arr(rs, [k \in 1..Prod(rs) |->
               Op(A.data[Source(k, rs, A.shape)], B.data[Source(k, rs, B.shape)])])

Map2(Op(_, _), A, B) ==
    IF IsBad(A) \/ IsBad(B) THEN BadArray
    ELSE IF ~CanBroadcast(A.shape, B.shape) THEN BadArray
    ELSE Zip(Op, A, B, BroadcastShape(A.shape, B.shape))

AAdd(A, B) == Map2(Add, A, B)
ASub(A, B) == Map2(Sub, A, B)
AMul(A, B) == Map2(Mul, A, B)
ADiv(A, B) == Map2(Div, A, B)
APow(A, B) == Map2(Pow, A, B)
ANeg(A)    == Map1(Neg, A)
AExp(A)    == Map1(Exp, A)
ASqrt(A)   == Map1(Sqrt, A)
ACos(A)    == Map1(Cos, A)
ASin(A)    == Map1(Sin, A)

\* np.any(x < c), np.any(x > c): comparisons with NaN are false
AnyLess(A, c)    == \E k \in 1..Size(A) : ~IsNaN(A.data[k]) /\ A.data[k] < c
AnyGreater(A, c) == \E k \in 1..Size(A) : ~IsNaN(A.data[k]) /\ A.data[k] > c

\* element [i, j] of a 2-d array, element [i, j, l] of a 3-d array
At2(A, i, j)    == A.data[(i - 1) * A.shape[2] + j]
At3(A, i, j, l) == A.data[((i - 1) * A.shape[2] + (j - 1)) * A.shape[3] + l]

-----------------------------------------------------------------------------
(* Atmosphere: construction                                                *)

DEFAULT_P  == Int2Num(1013)
DEFAULT_W0 == Num(0, 900000)
DEFAULT_G  == Num(0, 850000)

One == Sc(Scale)
Two == Sc(2 * Scale)

NoAtm == [variant |-> "none"]
Raise(kind) == [err |-> kind, out |-> <<>>]
Return(out) == [err |-> "none", out |-> out]

\* raise ValueError(msg), and the message of what a call raised
Fail(msg) == [err |-> "ValueError", out |-> <<>>, msg |-> msg]
MsgOf(r)  == IF "msg" \in DOMAIN r THEN r.msg ELSE ""

\* (a variant whose defaults are scalars)
AtmosphereFilled_ScalarDefault(p, rho, o3, h2o, alpha, beta, w0, g) ==
    Return([variant |-> "solo",
            p |-> AtLeast1d(p), rho |-> AtLeast1d(rho),
            o3 |-> AtLeast1d(o3), h2o |-> AtLeast1d(h2o),
            alpha |-> AtLeast1d(alpha), beta |-> AtLeast1d(beta),
            w0 |-> AtLeast1d(IF IsNone(w0) THEN Sc(DEFAULT_W0) ELSE w0),
            g |-> AtLeast1d(IF IsNone(g) THEN Sc(DEFAULT_G) ELSE g)])

\* the instance of Atmosphere.__new__: every field 1-d, w0 and g filled with
\* their defaults when they are None
AtmosphereFilled(p, rho, o3, h2o, alpha, beta, w0, g) ==
    Return([variant |-> "solo",
            p |-> AtLeast1d(p), rho |-> AtLeast1d(rho),
            o3 |-> AtLeast1d(o3), h2o |-> AtLeast1d(h2o),
            alpha |-> AtLeast1d(alpha), beta |-> AtLeast1d(beta),
            w0 |-> AtLeast1d(IF IsNone(w0) THEN Full(Shape(p), DEFAULT_W0)
                             ELSE w0),
            g |-> AtLeast1d(IF IsNone(g) THEN Full(Shape(p), DEFAULT_G)
                            ELSE g)])

\* (a variant without the check of the asymmetry parameter)
AtmosphereRanged_NoG(p, rho, o3, h2o, alpha, beta, w0, g) ==
    IF AnyLess(p, 0) THEN Raise("ValueError")
    ELSE IF AnyLess(rho, 0) \/ AnyGreater(rho, Scale) THEN Raise("ValueError")
    ELSE IF AnyLess(o3, 0) THEN Raise("ValueError")
    ELSE IF AnyLess(h2o, 0) THEN Raise("ValueError")
    ELSE IF AnyLess(alpha, 0) THEN Raise("ValueError")
    ELSE IF AnyLess(beta, 0) THEN Raise("ValueError")
    ELSE IF ~IsNone(w0) /\ (AnyLess(w0, 0) \/ AnyGreater(w0, Scale))
         THEN Raise("ValueError")
    ELSE AtmosphereFilled(p, rho, o3, h2o, alpha, beta, w0, g)

\* the range checks of Atmosphere.__new__
AtmosphereRanged(p, rho, o3, h2o, alpha, beta, w0, g) ==
    IF AnyLess(p, 0) THEN Raise("ValueError")
    ELSE IF AnyLess(rho, 0) \/ AnyGreater(rho, Scale) THEN Raise("ValueError")
    ELSE IF AnyLess(o3, 0) THEN Raise("ValueError")
    ELSE IF AnyLess(h2o, 0) THEN Raise("ValueError")
    ELSE IF AnyLess(alpha, 0) THEN Raise("ValueError")
    ELSE IF AnyLess(beta, 0) THEN Raise("ValueError")
    ELSE IF ~IsNone(w0) /\ (AnyLess(w0, 0) \/ AnyGreater(w0, Scale))
         THEN Raise("ValueError")
    ELSE IF ~IsNone(g) /\ AnyGreater(Map1(Abs, g), Scale)
         THEN Raise("ValueError")
    ELSE AtmosphereFilled(p, rho, o3, h2o, alpha, beta, w0, g)

\* Atmosphere.__new__: the arguments are arrays, w0 and g may be None
AtmosphereNew(p, rho, o3, h2o, alpha, beta, w0, g) ==
    LET items      == <<p, rho, o3, h2o, alpha, beta>>
                      \o SelectSeq(<<w0, g>>, LAMBDA x : ~IsNone(x))
        set_shapes == {Shape(items[i]) : i \in 1..Len(items)}
    IN  IF Cardinality(set_shapes) > 1 THEN Raise("AttributeError")
        ELSE IF Len(Shape(p)) > 1 THEN Raise("AttributeError")
        ELSE AtmosphereRanged(p, rho, o3, h2o, alpha, beta, w0, g)

\* Atmosphere.__new__ of the uvagoa package: no rho, fields kept as given
UvagoaAtmosphereNew(p, o3, h2o, a, b, w0, g) ==
    LET items      == <<p, o3, h2o, a, b>>
                      \o SelectSeq(<<w0, g>>, LAMBDA x : ~IsNone(x))
        set_shapes == {Shape(items[i]) : i \in 1..Len(items)}
        shape      == Shape(p)
    IN  IF Cardinality(set_shapes) > 1 THEN Raise("AttributeError")
        ELSE IF Len(shape) > 1 THEN Raise("AttributeError")
        ELSE IF AnyLess(p, 0) THEN Raise("ValueError")
        ELSE IF AnyLess(o3, 0) THEN Raise("ValueError")
        ELSE IF AnyLess(h2o, 0) THEN Raise("ValueError")
        ELSE IF AnyLess(a, 0) THEN Raise("ValueError")
        ELSE IF AnyLess(b, 0) THEN Raise("ValueError")
        ELSE IF ~IsNone(w0) /\ (AnyLess(w0, 0) \/ AnyGreater(w0, Scale))
             THEN Raise("ValueError")
        ELSE IF ~IsNone(g) /\ AnyGreater(Map1(Abs, g), Scale)
             THEN Raise("ValueError")
        ELSE Return([variant |-> "uvagoa",
                     p |-> p, rho |-> None, o3 |-> o3, h2o |-> h2o,
                     alpha |-> a, beta |-> b,
                     w0 |-> IF IsNone(w0) THEN Full(shape, DEFAULT_W0) ELSE w0,
                     g |-> IF IsNone(g) THEN Full(shape, DEFAULT_G) ELSE g])

\* Atmosphere.nscen of the two packages
nscen(atm) ==
    IF atm.variant = "solo" THEN Shape(atm.p)[1]
    ELSE IF Shape(atm.p) # <<>> THEN Shape(atm.p)[1] ELSE 1

-----------------------------------------------------------------------------
(* Atmosphere: optical depths                                              *)

\* the coefficients of Bates' formula
BATES_C == <<Num(117, 259400), 0 - Num(1, 321500), Num(0, 320), 0 - Num(0, 76)>>

\* div of tau_rayleigh
BatesDiv(wvln_um2, wvln_um4) ==
    Strict(<<wvln_um4>>,
           AAdd(AAdd(AAdd(AMul(Sc(BATES_C[1]), wvln_um4),
                          AMul(Sc(BATES_C[2]), wvln_um2)),
                     Sc(BATES_C[3])),
                ADiv(Sc(BATES_C[4]), wvln_um4)))

\* salb of tau_rayleigh
RayleighAlbedo(tau) ==
    ADiv(AMul(tau, ASub(One, AExp(AMul(ANeg(Two), tau)))), AAdd(Two, tau))

\* (tau,) + salb of tau_rayleigh, as the sequence <<tau>> or <<tau, salb>>
BatesOut(tau, return_albedo) ==
    IF return_albedo THEN <<tau, RayleighAlbedo(tau)>> ELSE <<tau>>

BatesTau2(wvln_um2, pressure, return_albedo) ==
    Strict(<<wvln_um2>>,
           BatesOut(ADiv(ADiv(pressure, Sc(DEFAULT_P)),
                         BatesDiv(wvln_um2, AMul(wvln_um2, wvln_um2))),
                    return_albedo))

\* the arithmetic shared by tau_rayleigh of both packages: wvln_um is 1-d
\* and pressure a column
BatesTau(wvln_um, pressure, return_albedo) ==
    BatesTau2(AMul(wvln_um, wvln_um), pressure, return_albedo)

\* Atmosphere.tau_rayleigh (solo)
tau_rayleigh(atm, wvln_um, return_albedo) ==
    IF NDim(wvln_um) > 1 THEN Raise("ValueError")
    ELSE Return(BatesTau(AtLeast1d(wvln_um), Col(atm.p), return_albedo))

\* salb of tau_aerosols
AerosolAlbedo(g, tau) ==
    AMul(ADiv(AMul(g, tau), AAdd(Two, AMul(g, tau))),
         AAdd(One, AExp(AMul(ANeg(g), tau))))

\* (tau,) + salb of tau_aerosols
AngstromOut(tau, g, return_albedo) ==
    IF return_albedo THEN <<tau, AerosolAlbedo(g, tau)>> ELSE <<tau>>

\* the arithmetic shared by tau_aerosols of both packages
AngstromTau(wvln_um, alpha, beta, g, return_albedo) ==
    AngstromOut(ADiv(beta, APow(wvln_um, alpha)), g, return_albedo)

\* Atmosphere.tau_aerosols (solo)
tau_aerosols(atm, wvln_um, return_albedo) ==
    IF NDim(wvln_um) > 1 THEN Raise("ValueError")
    ELSE Return(AngstromTau(AtLeast1d(wvln_um), Col(atm.alpha), Col(atm.beta),
                            Col(AMul(ASub(One, atm.g), atm.w0)), return_albedo))

\* (a variant that removes the leading axis only)
SqueezeAll_Leading(out, squeeze) ==
    IF squeeze
    THEN [i \in 1..Len(out) |->
            IF NDim(out[i]) > 0 /\ Shape(out[i])[1] = 1
            THEN Arr(Tail(Shape(out[i])), out[i].data) ELSE out[i]]
    ELSE out

\* np.squeeze of every output when the squeeze flag is set
SqueezeAll(out, squeeze) ==
    IF squeeze THEN [i \in 1..Len(out) |-> Squeeze(out[i])] ELSE out

\* Atmosphere.tau_rayleigh (uvagoa): arguments in the order (wvln_um, squeeze,
\* return_albedo)
uvagoa_tau_rayleigh(atm, wvln_um, squeeze, return_albedo) ==
    IF NDim(wvln_um) > 1 THEN Raise("ValueError")
    ELSE Return(SqueezeAll(BatesTau(AtLeast1d(wvln_um), Col(AtLeast1d(atm.p)),
                                    return_albedo),
                           squeeze))

\* Atmosphere.tau_aerosols (uvagoa)
uvagoa_tau_aerosols(atm, wvln_um, squeeze, return_albedo) ==
    IF NDim(wvln_um) > 1 THEN Raise("ValueError")
    ELSE Return(SqueezeAll(AngstromTau(AtLeast1d(wvln_um), Col(AtLeast1d(atm.alpha)),
                                       Col(AtLeast1d(atm.beta)),
                                       Col(AtLeast1d(AMul(ASub(One, atm.g), atm.w0))),
                                       return_albedo),
                           squeeze))

-----------------------------------------------------------------------------
(* Atmosphere: Rayleigh, aerosol and mixture transmittances                *)

\* the Python empty tuple ()
EmptyTuple == [kind |-> "tuple", shape |-> <<>>, data |-> <<>>]

\* c = [2. / 3., 4. / 3.]
SOBOLEV_C == <<DivInt(2 * Scale, 3), DivInt(4 * Scale, 3)>>

\* (a variant that checks mu0 against a single scenario as well)
Mu0Mismatch_Always(atm, mu0col) == Shape(mu0col)[1] \notin {1, nscen(atm)}

\* the check of mu0 against the number of scenarios shared by the trn_*
\* methods of solo ("nscen is not 1" compares small integers)
Mu0Mismatch(atm, mu0col) ==
    nscen(atm) # 1 /\ Shape(mu0col)[1] \notin {1, nscen(atm)}

\* (a variant that leaves mu0 on the last axis)
Mu0Col_Row(mu0arg) == AtLeast1d(mu0arg)

\* mu0 = np.atleast_1d(mu0)[:, None]
Mu0Col(mu0arg) == Col(AtLeast1d(mu0arg))

\* tdir = np.exp(-tau / mu0)
DirectTrn(tau, mu0) == AExp(ADiv(ANeg(tau), mu0))

\* (a variant with the formula of the docstring of trn_rayleigh)
RayleighTglb_Docstring(tau, mu0, tdir) ==
    ADiv(AAdd(AAdd(Sc(SOBOLEV_C[1]), mu0),
              AMul(ASub(Sc(SOBOLEV_C[2]), mu0), tdir)),
         AAdd(Sc(SOBOLEV_C[1]), tau))

\* tglb of trn_rayleigh (solo)
RayleighTglb(tau, mu0, tdir) ==
    ADiv(AAdd(AAdd(Sc(SOBOLEV_C[1]), mu0),
              AMul(ASub(Sc(SOBOLEV_C[1]), mu0), tdir)),
         AAdd(Sc(SOBOLEV_C[2]), tau))

\* (tglb, tdir, tdif) + salb with tdif = tglb - tdir
TrnOut(tglb, tdir, salb) == Return(<<tglb, tdir, ASub(tglb, tdir)>> \o salb)

RayleighTrn(tau, mu0, tdir, salb) ==
    Strict(<<tdir>>, TrnOut(RayleighTglb(tau, mu0, tdir), tdir, salb))

\* trn_rayleigh (solo) from the output of tau_rayleigh
RayleighFromTau(out, mu0, return_albedo) ==
    IF out.err # "none" THEN out
    ELSE RayleighTrn(out.out[1], mu0, DirectTrn(out.out[1], mu0),
                     IF return_albedo THEN <<out.out[2]>> ELSE <<>>)

\* Atmosphere.trn_rayleigh (solo)
trn_rayleigh(atm, wvln_um, mu0arg, return_albedo) ==
    IF NDim(mu0arg) > 1 THEN Raise("ValueError")
    ELSE IF Mu0Mismatch(atm, Mu0Col(mu0arg)) THEN Raise("IndexError")
    ELSE RayleighFromTau(tau_rayleigh(atm, wvln_um, return_albedo),
                         Mu0Col(mu0arg), return_albedo)

\* tglb of trn_rayleigh (uvagoa)
UvagoaRayleighTglb(tau, mu0, tdir) ==
    ADiv(AAdd(AAdd(Sc(SOBOLEV_C[1]), mu0),
              AMul(ASub(Sc(SOBOLEV_C[2]), mu0), tdir)),
         AAdd(Sc(SOBOLEV_C[2]), tau))

UvagoaRayleighTrn(tau, mu0, tdir, salb, squeeze) ==
    Strict(<<tau, tdir>>,
           Return(SqueezeAll(TrnOut(UvagoaRayleighTglb(tau, mu0, tdir), tdir, salb).out,
                             squeeze)))

\* trn_rayleigh (uvagoa) from the output of tau_rayleigh(wvln_um, False, ...)
UvagoaRayleighFromTau(out, mu0, squeeze, return_albedo) ==
    IF out.err # "none" THEN out
    ELSE UvagoaRayleighTrn(MidAxis(out.out[1]), mu0,
                           DirectTrn(MidAxis(out.out[1]), mu0),
                           IF return_albedo THEN <<out.out[2]>> ELSE <<>>, squeeze)

\* Atmosphere.trn_rayleigh (uvagoa): results on the axes (nscen, ngeo, nwvln)
uvagoa_trn_rayleigh(atm, wvln_um, mu0arg, squeeze, return_albedo) ==
    IF NDim(mu0arg) > 1 THEN Raise("ValueError")
    ELSE UvagoaRayleighFromTau(uvagoa_tau_rayleigh(atm, wvln_um, FALSE, return_albedo),
                               Mu0Col(mu0arg), squeeze, return_albedo)

\* sray + saer of trn_aerosols: array addition, or () + () = ()
AddAlbedo(sray, saer) ==
    IF sray = EmptyTuple /\ saer = EmptyTuple THEN EmptyTuple
    ELSE AAdd(sray, saer)

\* ak = np.sqrt((1. - w0) * (1. - w0 * g))
AerosolAk(w0, g) == ASqrt(AMul(ASub(One, w0), ASub(One, AMul(w0, g))))

\* r0 = ((ak - 1. + w0) / (ak + 1. - w0))
AerosolR0(ak, w0) == ADiv(AAdd(ASub(ak, One), w0), ASub(AAdd(ak, One), w0))

\* tglb = (1. - r0**2) * tdir_k / (1. - (r0 * tdir_k)**2)
AerosolTglb(r0, tdir_k) ==
    Strict(<<r0, tdir_k>>,
           ADiv(AMul(ASub(One, AMul(r0, r0)), tdir_k),
                ASub(One, AMul(AMul(r0, tdir_k), AMul(r0, tdir_k)))))

AerosolFromAk(ak, w0, tdir, salb) ==
    Strict(<<ak, tdir>>,
           TrnOut(AerosolTglb(AerosolR0(ak, w0), APow(tdir, ak)), tdir, <<salb>>))

\* the transmittances of trn_aerosols from tau, g and w0; the albedo salb is
\* the last output, the empty tuple when no albedo was asked for
AerosolTrn(tau, salb, g, w0, mu0) ==
    Strict(<<tau, salb, g, w0>>,
           AerosolFromAk(AerosolAk(w0, g), w0, DirectTrn(tau, mu0), salb))

\* (a variant that keeps the aerosols' own single-scattering albedo)
CoupledTrn_OwnW0(tau, salb, tau_ray, tau_aer, g, w0, mu0) ==
    Strict(<<tau>>, AerosolTrn(tau, salb, ADiv(AMul(tau_aer, g), tau), w0, mu0))

\* the effective g and w0 of the Rayleigh-aerosol coupling
CoupledTrn(tau, salb, tau_ray, tau_aer, g, w0, mu0) ==
    Strict(<<tau>>,
           AerosolTrn(tau, salb,
                      ADiv(AMul(tau_aer, g), tau),
                      ADiv(AAdd(tau_ray, AMul(w0, tau_aer)), tau),
                      mu0))

\* tau, salb = tau_ray + tau_aer, sray + saer
CoupleTau(tau_ray, sray, tau_aer, saer, g, w0, mu0) ==
    CoupledTrn(AAdd(tau_ray, tau_aer), AddAlbedo(sray, saer), tau_ray, tau_aer,
               g, w0, mu0)

\* the albedo of an output of tau_rayleigh or tau_aerosols, () without it
AlbedoOf(out, return_albedo) == IF return_albedo THEN out.out[2] ELSE EmptyTuple

\* trn_aerosols from the outputs of tau_aerosols and tau_rayleigh
AerosolsFromTau(atm, aer, ray, mu0, return_albedo, coupling) ==
    IF aer.err # "none" THEN aer
    ELSE IF coupling
    THEN (IF ray.err # "none" THEN ray
          ELSE CoupleTau(ray.out[1], AlbedoOf(ray, return_albedo),
                         aer.out[1], AlbedoOf(aer, return_albedo),
                         Col(atm.g), Col(atm.w0), mu0))
    ELSE AerosolTrn(aer.out[1], AlbedoOf(aer, return_albedo),
                    Col(atm.g), Col(atm.w0), mu0)

\* Atmosphere.trn_aerosols (solo).  Without return_albedo the fourth output
\* is the empty tuple that "salb = (salb,)" wraps.
trn_aerosols(atm, wvln_um, mu0arg, return_albedo, coupling) ==
    IF NDim(mu0arg) > 1 THEN Raise("ValueError")
    ELSE IF Mu0Mismatch(atm, Mu0Col(mu0arg)) THEN Raise("IndexError")
    ELSE AerosolsFromTau(atm, tau_aerosols(atm, wvln_um, return_albedo),
                         tau_rayleigh(atm, wvln_um, return_albedo),
                         Mu0Col(mu0arg), return_albedo, coupling)

\* trn_mixture with coupling: the first three outputs of trn_aerosols and,
\* when asked for, its fourth
MixtureCoupled(out, return_albedo) ==
    IF out.err # "none" THEN out
    ELSE Return(SubSeq(out.out, 1, 3)
                \o (IF return_albedo THEN <<out.out[4]>> ELSE <<>>))

\* (a variant that multiplies the diffuse transmittances as well)
MixtureProduct_Diffuse(ray, aer, return_albedo) ==
    IF ray.err # "none" THEN ray
    ELSE IF aer.err # "none" THEN aer
    ELSE Return(<<AMul(ray.out[1], aer.out[1]), AMul(ray.out[2], aer.out[2]),
                  AMul(ray.out[3], aer.out[3])>>
                \o (IF return_albedo THEN <<AAdd(ray.out[4], aer.out[4])>> ELSE <<>>))

\* trn_mixture without coupling, from the outputs of trn_rayleigh and of
\* trn_aerosols
MixtureProduct(ray, aer, return_albedo) ==
    IF ray.err # "none" THEN ray
    ELSE IF aer.err # "none" THEN aer
    ELSE TrnOut(AMul(ray.out[1], aer.out[1]), AMul(ray.out[2], aer.out[2]),
                IF return_albedo THEN <<AAdd(ray.out[4], aer.out[4])>> ELSE <<>>)

\* Atmosphere.trn_mixture (solo)
trn_mixture(atm, wvln_um, mu0arg, return_albedo, coupling) ==
    IF coupling
    THEN MixtureCoupled(trn_aerosols(atm, wvln_um, mu0arg, return_albedo, TRUE),
                        return_albedo)
    ELSE MixtureProduct(trn_rayleigh(atm, wvln_um, mu0arg, return_albedo),
                        trn_aerosols(atm, wvln_um, mu0arg, return_albedo, FALSE),
                        return_albedo)

-----------------------------------------------------------------------------
(* Reference tables and interpolation                                      *)

\* Sample rows of the table of molecular absorption coefficients that is
\* loaded from dat/abscoef.dat and transposed: row 1 the wavelengths in nm,
\* row 2 and 3 the water vapour coefficient and exponent, row 4 the ozone
\* cross section (here in units of 1E-19 cm2), row 5 the oxygen coefficient
\* (here in units of 1E-4 cm-1).  The units keep the numbers in range; the
\* constants that multiply rows 4 and 5 carry the inverse factors.
ABSCOEF ==
    << <<Int2Num(300), Int2Num(600), Int2Num(760), Int2Num(940), Int2Num(2000)>>,
       <<0, 0, 0, Num(2, 0), Num(0, 500000)>>,
       <<0, 0, 0, Num(0, 600000), Num(0, 500000)>>,
       <<Num(3, 0), Num(0, 50000), 0, 0, 0>>,
       <<0, 0, Num(0, 150000), 0, 0>> >>

\* Sample rows of the extraterrestrial spectrum loaded from dat/kurucz.dat
\* and transposed: row 1 the wavelengths in nm, row 2 the irradiance
KURUCZ ==
    << <<Int2Num(300), Int2Num(600), Int2Num(940)>>,
       <<Num(0, 500000), Num(1, 800000), Num(0, 800000)>> >>

\* np.interp(x, xp, fp) of one value x: linear between the samples, the end
\* values outside them
RECURSIVE InterpFrom(_, _, _, _)
InterpFrom(x, xp, fp, i) ==
    IF i = Len(xp) THEN fp[i]
    ELSE IF x < xp[i + 1]
         THEN Add(Mul(Div(fp[i + 1] - fp[i], xp[i + 1] - xp[i]), x - xp[i]), fp[i])
         ELSE InterpFrom(x, xp, fp, i + 1)

Interp1(x, xp, fp) ==
    IF IsNaN(x) THEN NaN
    ELSE IF x <= xp[1] THEN fp[1]
    ELSE InterpFrom(x, xp, fp, 1)

\* np.interp on an array of wavelengths, against row r of the table
Interp(wvln, table, r) ==
    IF IsBad(wvln) THEN BadArray
    ELSE Arr(wvln.shape,
             [k \in 1..Size(wvln) |-> Interp1(wvln.data[k], table[1], table[r])])

\* np.where(np.isclose(a, 0.0), x, y) with a scalar x on the result shape rs:
\* the elements of a within 1E-8 of zero are those that are zero in fixed point
Where(a, x, Y, rs) ==
    Arr(rs, [k \in 1..Prod(rs) |->
               IF a.data[Source(k, rs, a.shape)] = 0 THEN x
               ELSE Y.data[Source(k, rs, Y.shape)]])

\* (a variant that never takes an exponent for zero)
WhereZero_Never(a, x, Y) ==
    IF IsBad(a) \/ IsBad(Y) THEN BadArray
    ELSE IF ~CanBroadcast(a.shape, Y.shape) THEN BadArray
    ELSE Where(Full(a.shape, Scale), x, Y, BroadcastShape(a.shape, Y.shape))

WhereZero(a, x, Y) ==
    IF IsBad(a) \/ IsBad(Y) THEN BadArray
    ELSE IF ~CanBroadcast(a.shape, Y.shape) THEN BadArray
    ELSE Where(a, x, Y, BroadcastShape(a.shape, Y.shape))

-----------------------------------------------------------------------------
(* Atmosphere: gas transmittances                                          *)

\* Loschmidt's number 2.687E19 in the unit of row 4 of ABSCOEF
LOSCHMIDT == Num(2, 687000)
\* the oxygen path 0.209 * 173200 cm in the unit of row 5 of ABSCOEF
OXYGEN_PATH == Num(3, 619880)
OXYGEN_EXP  == Num(0, 564100)
\* 1E-3: DU to cm of ozone, nm to microns
MILLI == Num(0, 1000)

\* trn of trn_water
WaterTrn(water_coef, water_exp, water_path, mu0) ==
    WhereZero(water_exp, Scale,
              AExp(ANeg(APow(ADiv(AMul(water_coef, water_path), mu0), water_exp))))

\* Atmosphere.trn_water (solo)
trn_water(atm, wvlnarg, mu0arg) ==
    IF NDim(wvlnarg) > 1 THEN Raise("ValueError")
    ELSE IF NDim(mu0arg) > 1 THEN Raise("ValueError")
    ELSE IF Mu0Mismatch(atm, Mu0Col(mu0arg)) THEN Raise("IndexError")
    ELSE Return(<<WaterTrn(Interp(AtLeast1d(wvlnarg), ABSCOEF, 2),
                           Interp(AtLeast1d(wvlnarg), ABSCOEF, 3),
                           Col(atm.h2o), Mu0Col(mu0arg))>>)

\* trn of trn_ozone
OzoneTrn(ozone_xsec, ozone_path, mu0) ==
    AExp(ADiv(AMul(ANeg(AMul(Sc(LOSCHMIDT), ozone_xsec)), ozone_path), mu0))

\* Atmosphere.trn_ozone (solo)
trn_ozone(atm, wvlnarg, mu0arg) ==
    IF NDim(wvlnarg) > 1 THEN Raise("ValueError")
    ELSE IF NDim(mu0arg) > 1 THEN Raise("ValueError")
    ELSE IF Mu0Mismatch(atm, Mu0Col(mu0arg)) THEN Raise("IndexError")
    ELSE Return(<<OzoneTrn(Interp(AtLeast1d(wvlnarg), ABSCOEF, 4),
                           Col(AMul(Sc(MILLI), atm.o3)), Mu0Col(mu0arg))>>)

\* trn of trn_oxygen
OxygenTrn(oxygen_coef, oxygen_path, oxygen_exp, mu0) ==
    AExp(ANeg(APow(ADiv(AMul(oxygen_coef, oxygen_path), mu0), oxygen_exp)))

\* Atmosphere.trn_oxygen (solo)
trn_oxygen(atm, wvlnarg, mu0arg) ==
    IF NDim(wvlnarg) > 1 THEN Raise("ValueError")
    ELSE IF NDim(mu0arg) > 1 THEN Raise("ValueError")
    ELSE IF Mu0Mismatch(atm, Mu0Col(mu0arg)) THEN Raise("IndexError")
    ELSE Return(<<OxygenTrn(Interp(AtLeast1d(wvlnarg), ABSCOEF, 5),
                            Col(Vec(<<OXYGEN_PATH>>)), Sc(OXYGEN_EXP),
                            Mu0Col(mu0arg))>>)

-----------------------------------------------------------------------------
(* Geometry                                                                *)

DAY_TO_RAD   == DivInt(TWO_PI, 365)
\* (a variant on a year of 366 days)
TimesDayToRad_LeapYear(x) ==
    IF ~IsFinite(x) THEN x
    ELSE Add(Mul(x, DivInt(TWO_PI, 366)), DivInt(Mul(x, TWO_PI % 366), 366))

\* x * DAY_TO_RAD with the constant held as the ratio 2 pi / 365: the part
\* of the ratio below the last fixed-point digit is carried
TimesDayToRad(x) ==
    IF ~IsFinite(x) THEN x
    ELSE Add(Mul(x, DAY_TO_RAD), DivInt(Mul(x, TWO_PI % 365), 365))
HOUR_TO_RAD  == DivInt(PI, 12)
SEC_MAX      == 86399 * Kilo

NoGeo == [day |-> None, sec |-> None, lat |-> None, lon |-> None,
          sza |-> None, mu0 |-> None]

\* the angle t in lo..hi, 0 <= t <= pi, with cos t nearest above x
RECURSIVE ArcCosSearch(_, _, _)
ArcCosSearch(x, lo, hi) ==
    IF lo = hi THEN lo
    ELSE IF Cos(lo + ((hi - lo) \div 2)) <= x
         THEN ArcCosSearch(x, lo, lo + ((hi - lo) \div 2))
         ELSE ArcCosSearch(x, lo + ((hi - lo) \div 2) + 1, hi)

\* np.arccos
ArcCos(x) ==
    IF ~IsFinite(x) \/ Abs(x) > Scale THEN NaN ELSE ArcCosSearch(x, 0, PI)

AArcCos(A) == Map1(ArcCos, A)

\* astype(int) of a finite number: truncation towards zero
Trunc(x) == Sgn(x) * ((Abs(x) \div Scale) * Scale)

\* Geometry.day_angle
day_angle(geo) == Map1(TimesDayToRad, ASub(geo.day, One))

GEOFAC_C == <<Num(1, 110), Num(0, 34220), Num(0, 1280), Num(0, 719), Num(0, 77)>>

\* the Fourier sum c[0] + c[1] cos(t1) + c[2] sin(t1) + c[3] cos(t2) + c[4] sin(t2)
Fourier2(c, t1, t2) ==
    AAdd(AAdd(AAdd(AAdd(Sc(c[1]),
                        AMul(Sc(c[2]), ACos(t1))),
                   AMul(Sc(c[3]), ASin(t1))),
              AMul(Sc(c[4]), ACos(t2))),
         AMul(Sc(c[5]), ASin(t2)))

GeometricFactorAt(day_ang1) == Fourier2(GEOFAC_C, day_ang1, AMul(day_ang1, Two))

\* Geometry.geometric_factor
geometric_factor(geo) == GeometricFactorAt(day_angle(geo))

DECLIN_C == <<Num(0, 6918), 0 - Num(0, 399912), Num(0, 70257), 0 - Num(0, 6758),
              Num(0, 907), 0 - Num(0, 2697), Num(0, 1480)>>

DeclinationAt(ett1) ==
    AAdd(AAdd(Fourier2(DECLIN_C, ett1, AMul(Two, ett1)),
              AMul(Sc(DECLIN_C[6]), ACos(AMul(Sc(3 * Scale), ett1)))),
         AMul(Sc(DECLIN_C[7]), ASin(AMul(Sc(3 * Scale), ett1))))

\* Geometry.declination
declination(geo) == DeclinationAt(Map1(TimesDayToRad, geo.day))

EQTIME_C == <<Num(0, 75), Num(0, 1868), 0 - Num(0, 32077), 0 - Num(0, 14615),
              0 - Num(0, 40849)>>

EquationOfTimeAt(ett1) == Fourier2(EQTIME_C, ett1, AMul(Two, ett1))

\* Geometry.equation_of_time
equation_of_time(geo) == EquationOfTimeAt(Map1(TimesDayToRad, geo.day))

\* sec / HOUR_TO_SEC: sec is kept in thousandths of a second (a day of
\* seconds does not fit the fixed-point range), the result is in hours
SecToHours(sec) ==
    Map1(LAMBDA t : ((t \div 3600) * Kilo) + (((t % 3600) * Kilo) \div 3600), sec)

\* mu0 and sza of compute_sza
SzaAt(lat, dec, hour_angle) ==
    AArcCos(AAdd(AMul(ASin(lat), ASin(dec)),
                 AMul(AMul(ACos(lat), ACos(dec)), ACos(hour_angle))))

\* the angle compute_sza derives from day, sec, lat and lon
SzaFromTime(geo, lat) ==
    SzaAt(lat, declination(geo),
          AMul(ASub(AAdd(AAdd(SecToHours(geo.sec),
                              ADiv(geo.lon, Sc(HOUR_TO_RAD))),
                         ADiv(equation_of_time(geo), Sc(HOUR_TO_RAD))),
                    Sc(12 * Scale)),
               Sc(HOUR_TO_RAD)))

\* (a variant that takes a missing latitude for the equator)
compute_sza_LatOptional(geo) ==
    IF ~IsNone(geo.sza) THEN Return(<<geo.sza>>)
    ELSE IF IsNone(geo.sec) THEN Fail("UTC seconds missing")
    ELSE IF IsNone(geo.lon) THEN Fail("longitude values missing")
    ELSE Return(<<SzaFromTime(geo, IF IsNone(geo.lat) THEN Full(Shape(geo.day), 0)
                                   ELSE geo.lat)>>)

\* (a variant that recomputes the angle whenever it can)
compute_sza_Recompute(geo) ==
    IF ~IsNone(geo.sec) /\ ~IsNone(geo.lat) /\ ~IsNone(geo.lon)
    THEN Return(<<SzaFromTime(geo, geo.lat)>>)
    ELSE IF ~IsNone(geo.sza) THEN Return(<<geo.sza>>)
    ELSE Fail("UTC seconds missing")

\* Geometry.compute_sza
compute_sza(geo) ==
    IF ~IsNone(geo.sza) THEN Return(<<geo.sza>>)
    ELSE IF IsNone(geo.sec) THEN Fail("UTC seconds missing")
    ELSE IF IsNone(geo.lat) THEN Fail("latitude values missing")
    ELSE IF IsNone(geo.lon) THEN Fail("longitude values missing")
    ELSE Return(<<SzaFromTime(geo, geo.lat)>>)

\* sec made 1-d and cast to int (sec is kept in thousandths of a second), an
\* optional angle made 1-d and in radians
Opt1d(x) ==
    IF IsNone(x) THEN None
    ELSE Map1(LAMBDA t : Sgn(t) * ((Abs(t) \div Kilo) * Kilo), AtLeast1d(x))
OptRadians(x, mode) ==
    IF IsNone(x) THEN None
    ELSE AtLeast1d(IF mode = "rad" THEN x ELSE Map1(Radians, x))

\* the end of Geometry.__new__: sza is the stored sza or what compute_sza
\* returns or raises
GeometryWithSza(part, sza) ==
    IF sza.err # "none" THEN sza
    ELSE Return([part EXCEPT !.sza = sza.out[1], !.mu0 = ACos(sza.out[1])])

\* (a variant without the check of the solar zenith angle)
GeometryRanged_NoSza(day, sec, lat, lon, sza) ==
    IF ~IsNone(sec) /\ (AnyLess(sec, 0) \/ AnyGreater(sec, SEC_MAX))
    THEN Fail("UTC seconds out of range")
    ELSE IF ~IsNone(lat) /\ AnyGreater(Map1(Abs, lat), HALF_PI)
    THEN Fail("latitude values out of range")
    ELSE IF ~IsNone(lon) /\ AnyGreater(Map1(Abs, lon), PI)
    THEN Fail("longitude values out of range")
    ELSE GeometryWithSza(
             [day |-> day, sec |-> Opt1d(sec), lat |-> lat, lon |-> lon,
              sza |-> None, mu0 |-> None],
             IF ~IsNone(sza) THEN Return(<<sza>>)
             ELSE compute_sza([day |-> day, sec |-> Opt1d(sec), lat |-> lat, lon |-> lon,
                               sza |-> None, mu0 |-> None]))

\* (a variant that checks the longitude before the latitude)
GeometryRanged_LonFirst(day, sec, lat, lon, sza) ==
    IF ~IsNone(sec) /\ (AnyLess(sec, 0) \/ AnyGreater(sec, SEC_MAX))
    THEN Fail("UTC seconds out of range")
    ELSE IF ~IsNone(lon) /\ AnyGreater(Map1(Abs, lon), PI)
    THEN Fail("longitude values out of range")
    ELSE IF ~IsNone(lat) /\ AnyGreater(Map1(Abs, lat), HALF_PI)
    THEN Fail("latitude values out of range")
    ELSE IF ~IsNone(sza) /\ AnyGreater(Map1(Abs, ASub(sza, Sc(HALF_PI))), HALF_PI)
    THEN Fail("solar zenith angle values out of range")
    ELSE GeometryWithSza(
             [day |-> day, sec |-> Opt1d(sec), lat |-> lat, lon |-> lon,
              sza |-> None, mu0 |-> None],
             IF ~IsNone(sza) THEN Return(<<sza>>)
             ELSE compute_sza([day |-> day, sec |-> Opt1d(sec), lat |-> lat, lon |-> lon,
                               sza |-> None, mu0 |-> None]))

\* the range checks of Geometry.__new__ after that of day, on converted values
GeometryRanged(day, sec, lat, lon, sza) ==
    IF ~IsNone(sec) /\ (AnyLess(sec, 0) \/ AnyGreater(sec, SEC_MAX))
    THEN Fail("UTC seconds out of range")
    ELSE IF ~IsNone(lat) /\ AnyGreater(Map1(Abs, lat), HALF_PI)
    THEN Fail("latitude values out of range")
    ELSE IF ~IsNone(lon) /\ AnyGreater(Map1(Abs, lon), PI)
    THEN Fail("longitude values out of range")
    ELSE IF ~IsNone(sza) /\ AnyGreater(Map1(Abs, ASub(sza, Sc(HALF_PI))), HALF_PI)
    THEN Fail("solar zenith angle values out of range")
    ELSE GeometryWithSza(
             [day |-> day, sec |-> Opt1d(sec), lat |-> lat, lon |-> lon,
              sza |-> None, mu0 |-> None],
             IF ~IsNone(sza) THEN Return(<<sza>>)
             ELSE compute_sza([day |-> day, sec |-> Opt1d(sec), lat |-> lat, lon |-> lon,
                               sza |-> None, mu0 |-> None]))

\* (a variant that lets scalars go with any shape)
ArgShapes_Broadcast(args) ==
    {Shape(args[i]) : i \in {j \in 1..Len(args) : ~IsNone(args[j])}} \ {<<>>}

\* the shapes of the arguments that are not None
ArgShapes(args) == {Shape(args[i]) : i \in {j \in 1..Len(args) : ~IsNone(args[j])}}

\* str.lower on the modes a caller passes
Lower(mode) ==
    IF mode \in {"DEG", "Deg"} THEN "deg"
    ELSE IF mode \in {"RAD", "Rad"} THEN "rad"
    ELSE mode

\* Geometry.__new__: sec, lat, lon and sza may be None; mode is a string
GeometryNew(day, sec, lat, lon, sza, mode) ==
    IF Cardinality(ArgShapes(<<day, sec, lat, lon, sza>>)) > 1 THEN Fail("size mismatch among input arguments")
    ELSE IF Len(Shape(day)) > 1 THEN Fail("input arguments must be 0- or 1-dimensional")
    ELSE IF Lower(mode) \notin {"rad", "deg"} THEN Fail("invalid value for 'mode': " \o mode)
    ELSE IF AnyLess(day, Scale) \/ AnyGreater(day, 366 * Scale)
    THEN Fail("Julian days out of range")
    ELSE GeometryRanged(Map1(Trunc, AtLeast1d(day)), sec,
                        OptRadians(lat, Lower(mode)), OptRadians(lon, Lower(mode)),
                        OptRadians(sza, Lower(mode)))

\* Geometry.ngeo: the number of scenes
ngeo(self) == IF Shape(self.mu0) = <<>> THEN 1 ELSE Shape(self.mu0)[1]

\* np.isclose(x, y, equal_nan=True) with rtol = 1e-5 and atol = 1e-8, for
\* numbers that count in 1/unit: |x - y| <= atol + rtol |y|
IsClose(x, y, unit) ==
    IF IsNaN(x) \/ IsNaN(y) THEN IsNaN(x) /\ IsNaN(y)
    ELSE IF IsInf(x) \/ IsInf(y) THEN x = y
    ELSE Abs(x - y) <= ((unit \div Kilo) + Abs(y)) \div 100000

\* np.allclose(a, b, equal_nan=True) of two arrays of one length
AllClose(a, b, unit) ==
    \A k \in 1..Size(a) : IsClose(a.data[k], b.data[k], unit)

\* (a variant that compares a field only where both instances have it)
OptClose_WherePresent(a, b, unit) ==
    IsNone(a) \/ IsNone(b) \/ AllClose(a, b, unit)

\* the comparison of sec, lat or lon in Geometry.__eq__: None in one is
\* equal only to None in the other
OptClose(a, b, unit) ==
    IF IsNone(a) \/ IsNone(b) THEN IsNone(a) /\ IsNone(b)
    ELSE AllClose(a, b, unit)

\* a value of Python: an instance of Geometry, or of another class with the
\* fields it has
Instance(class, value) == [class |-> class, value |-> value]

\* Geometry.__eq__
GeometryEq(self, other) ==
    IF other.class # "Geometry" THEN FALSE
    ELSE IF ngeo(self) # ngeo(other.value) THEN FALSE
    ELSE IF ~AllClose(self.day, other.value.day, Scale) THEN FALSE
    ELSE IF ~AllClose(self.sza, other.value.sza, Scale) THEN FALSE
    ELSE IF ~AllClose(self.mu0, other.value.mu0, Scale) THEN FALSE
    ELSE /\ OptClose(self.sec, other.value.sec, Kilo)
         /\ OptClose(self.lat, other.value.lat, Scale)
         /\ OptClose(self.lon, other.value.lon, Scale)

-----------------------------------------------------------------------------
(* radtran                                                                 *)

\* return irr_glb, irr_dir, irr_dif: an operation on arrays that cannot be
\* broadcast has raised numpy's ValueError
RadtranReturn(irr_glb, irr_dir, irr_dif) ==
    IF IsBad(irr_glb) \/ IsBad(irr_dir) \/ IsBad(irr_dif) THEN Raise("ValueError")
    ELSE Return(<<irr_glb, irr_dir, irr_dif>>)

\* (a variant that forgets the projection of the direct beam)
RadtranDif_NoMu0(irr_glb, irr_dir, mu0) ==
    RadtranReturn(irr_glb, irr_dir, ASub(irr_glb, irr_dir))

\* irr_dif = irr_glb - irr_dir * mu0
RadtranDif(irr_glb, irr_dir, mu0) ==
    RadtranReturn(irr_glb, irr_dir, ASub(irr_glb, AMul(irr_dir, mu0)))

\* irr_glb and irr_dir of radtran
RadtranIrr(irr0, mu0, tglb_mix, tdir_mix, tdir_gas, amp_factor) ==
    RadtranDif(AMul(AMul(AMul(AMul(irr0, mu0), tglb_mix), tdir_gas), amp_factor),
               AMul(AMul(irr0, tdir_mix), tdir_gas),
               mu0)

\* radtran from the outputs of trn_mixture, trn_water, trn_ozone, trn_oxygen
RadtranFrom(geo, atm, irr0, mix, wat, ozo, oxy) ==
    IF mix.err # "none" THEN mix
    ELSE IF wat.err # "none" THEN wat
    ELSE IF ozo.err # "none" THEN ozo
    ELSE IF oxy.err # "none" THEN oxy
    ELSE RadtranIrr(irr0, Col(geo.mu0), mix.out[1], mix.out[2],
                    AMul(AMul(wat.out[1], ozo.out[1]), oxy.out[1]),
                    ADiv(One, ASub(One, AMul(Col(atm.rho), mix.out[4]))))

\* radtran on the 1-d wavelengths wvln in nm
RadtranAt(geo, atm, wvln, coupling) ==
    IF NDim(wvln) > 1 THEN Raise("ValueError")
    ELSE RadtranFrom(geo, atm,
                     AMul(Vec(KURUCZ[2]), Col(geometric_factor(geo))),
                     trn_mixture(atm, AMul(Sc(MILLI), wvln), geo.mu0, TRUE, coupling),
                     trn_water(atm, wvln, geo.mu0),
                     trn_ozone(atm, wvln, geo.mu0),
                     trn_oxygen(atm, wvln, geo.mu0))

\* radtran of solo: wvln is None (the wavelengths of the spectrum table) or
\* an array of wavelengths in nm
radtran(geo, atm, wvlnarg, coupling) ==
    RadtranAt(geo, atm,
              AtLeast1d(IF IsNone(wvlnarg) THEN Vec(KURUCZ[1]) ELSE wvlnarg),
              coupling)

-----------------------------------------------------------------------------
(* The callers' inputs                                                     *)

MaxScen == 2
MaxGeo  == 3
MaxWvln == 2

\* Scenarios a caller builds an Atmosphere from: the one of the tests
\* (p=800, rho=0.2, o3=300, h2o=0.4, alpha=1.5, beta=0.05), a turbid one with
\* conservative scattering (w0=1) and the empty atmosphere (every field at the
\* lower end of its range).
ScenPool ==
    << [p |-> Int2Num(800), rho |-> Num(0, 200000), o3 |-> Int2Num(300),
        h2o |-> Num(0, 400000), alpha |-> Num(1, 500000), beta |-> Num(0, 50000),
        w0 |-> Num(0, 900000), g |-> Num(0, 850000)],
       [p |-> Int2Num(1013), rho |-> Num(0, 100000), o3 |-> Int2Num(250),
        h2o |-> Num(1, 500000), alpha |-> Num(1, 0), beta |-> Num(0, 200000),
        w0 |-> Num(1, 0), g |-> Num(0, 700000)],
       [p |-> 0, rho |-> 0, o3 |-> 0, h2o |-> 0, alpha |-> 0, beta |-> 0,
        w0 |-> Num(0, 900000), g |-> Num(0, 850000)] >>

\* Scenes a caller builds a Geometry from (day of year, sza in degrees)
ScenePool ==
    << [day |-> Int2Num(152), sza |-> Int2Num(60)],
       [day |-> Int2Num(1),   sza |-> 0] >>

\* Wavelengths in nm
WvlnPool == <<Int2Num(700), Int2Num(900), Int2Num(450), Int2Num(1500)>>

\* the runs of 1..m consecutive entries of a pool of n, taken cyclically
Windows(n, m) ==
    {[i \in 1..k |-> ((s + i - 2) % n) + 1] : s \in 1..n, k \in 1..m}

Field(pool, idx, f) == Vec([i \in 1..Len(idx) |-> pool[idx[i]][f]])

\* wavelength grids in nm: scalars and 1-D arrays
WvlnArgs ==
    {Sc(WvlnPool[i]) : i \in 1..Min(MaxWvln, Len(WvlnPool))}
    \cup {Vec(SubSeq(WvlnPool, 1, k)) : k \in 1..Min(MaxWvln, Len(WvlnPool))}

\* a grid with two dimensions
Grid2d == Arr(<<1, 2>>, SubSeq(WvlnPool, 1, 2))

Microns(wvln) == Map1(LAMBDA w : Mul(MILLI, w), wvln)

-----------------------------------------------------------------------------
(* The state machine: a caller that constructs instances and calls methods  *)

VARIABLES atm, geo, res

vars == <<atm, geo, res>>

NoCall == [op |-> "none", wvln |-> None, mu0 |-> None, albedo |-> FALSE,
           coupling |-> FALSE, squeeze |-> FALSE, err |-> "none", out |-> <<>>]

Call(op, wvln, mu0, albedo, coupling, squeeze, r) ==
    [op |-> op, wvln |-> wvln, mu0 |-> mu0, albedo |-> albedo,
     coupling |-> coupling, squeeze |-> squeeze, err |-> r.err,
     out |-> IF r.err = "none" THEN r.out ELSE <<>>]

Init ==
    /\ atm = NoAtm
    /\ geo = NoGeo
    /\ res = NoCall

\* the caller is done with the result of its last call
Drop ==
    /\ res # NoCall
    /\ res' = NoCall
    /\ UNCHANGED <<atm, geo>>

\* Atmosphere(p=..., rho=..., ...): the fault is what the caller got wrong
NewAtmosphere ==
    /\ res = NoCall
    /\ \E idx \in Windows(Len(ScenPool), MaxScen), defaults \in BOOLEAN,
       fault \in {"none", "range", "shape"} :
        LET F(f) == Field(ScenPool, idx, f)
            r == AtmosphereNew(F("p"),
                               IF fault = "shape" THEN Sc(ScenPool[idx[1]].rho)
                               ELSE F("rho"),
                               F("o3"), F("h2o"), F("alpha"), F("beta"),
                               IF defaults THEN None
                               ELSE IF fault = "range"
                                    THEN AAdd(F("w0"), One) ELSE F("w0"),
                               IF defaults THEN None ELSE F("g"))
        IN  /\ atm' = IF r.err = "none" THEN r.out ELSE atm
            /\ res' = [Call("Atmosphere", None, None, FALSE, FALSE, FALSE, r)
                       EXCEPT !.out = <<>>]
            /\ UNCHANGED geo

\* Geometry(day=..., sza=..., mode="deg")
NewGeometry ==
    /\ res = NoCall
    /\ \E idx \in Windows(Len(ScenePool), MaxGeo),
       fault \in {"none", "range", "shape"} :
        LET F(f) == Field(ScenePool, idx, f)
            r == GeometryNew(IF fault = "range" THEN ASub(F("day"), Sc(Int2Num(152)))
                             ELSE F("day"),
                             None, None, None,
                             IF fault = "shape" THEN Sc(ScenePool[idx[1]].sza)
                             ELSE F("sza"),
                             "deg")
        IN  /\ geo' = IF r.err = "none" THEN r.out ELSE geo
            /\ res' = [Call("Geometry", None, None, FALSE, FALSE, FALSE, r)
                       EXCEPT !.out = <<>>]
            /\ UNCHANGED atm

TauRayleigh ==
    /\ res = NoCall
    /\ atm.variant = "solo"
    /\ \E w \in WvlnArgs, alb \in BOOLEAN :
         res' = Call("tau_rayleigh", Microns(w), None, alb, FALSE, FALSE,
                     tau_rayleigh(atm, Microns(w), alb))
    /\ UNCHANGED <<atm, geo>>

TauAerosols ==
    /\ res = NoCall
    /\ atm.variant = "solo"
    /\ \E w \in WvlnArgs, alb \in BOOLEAN :
         res' = Call("tau_aerosols", Microns(w), None, alb, FALSE, FALSE,
                     tau_aerosols(atm, Microns(w), alb))
    /\ UNCHANGED <<atm, geo>>

TrnRayleigh ==
    /\ res = NoCall
    /\ atm.variant = "solo"
    /\ geo # NoGeo
    /\ \E w \in WvlnArgs, alb \in BOOLEAN :
         res' = Call("trn_rayleigh", Microns(w), geo.mu0, alb, FALSE, FALSE,
                     trn_rayleigh(atm, Microns(w), geo.mu0, alb))
    /\ UNCHANGED <<atm, geo>>

TrnAerosols ==
    /\ res = NoCall
    /\ atm.variant = "solo"
    /\ geo # NoGeo
    /\ \E w \in WvlnArgs, alb \in BOOLEAN, cpl \in BOOLEAN :
         res' = Call("trn_aerosols", Microns(w), geo.mu0, alb, cpl, FALSE,
                     trn_aerosols(atm, Microns(w), geo.mu0, alb, cpl))
    /\ UNCHANGED <<atm, geo>>

TrnMixture ==
    /\ res = NoCall
    /\ atm.variant = "solo"
    /\ geo # NoGeo
    /\ \E w \in WvlnArgs, alb \in BOOLEAN, cpl \in BOOLEAN :
         res' = Call("trn_mixture", Microns(w), geo.mu0, alb, cpl, FALSE,
                     trn_mixture(atm, Microns(w), geo.mu0, alb, cpl))
    /\ UNCHANGED <<atm, geo>>

TrnWater ==
    /\ res = NoCall
    /\ atm.variant = "solo"
    /\ geo # NoGeo
    /\ \E w \in WvlnArgs :
         res' = Call("trn_water", w, geo.mu0, FALSE, FALSE, FALSE,
                     trn_water(atm, w, geo.mu0))
    /\ UNCHANGED <<atm, geo>>

TrnOzone ==
    /\ res = NoCall
    /\ atm.variant = "solo"
    /\ geo # NoGeo
    /\ \E w \in WvlnArgs :
         res' = Call("trn_ozone", w, geo.mu0, FALSE, FALSE, FALSE,
                     trn_ozone(atm, w, geo.mu0))
    /\ UNCHANGED <<atm, geo>>

TrnOxygen ==
    /\ res = NoCall
    /\ atm.variant = "solo"
    /\ geo # NoGeo
    /\ \E w \in WvlnArgs :
         res' = Call("trn_oxygen", w, geo.mu0, FALSE, FALSE, FALSE,
                     trn_oxygen(atm, w, geo.mu0))
    /\ UNCHANGED <<atm, geo>>

\* radtran(geo, atm, wvln, coupling): wvln None stands for the omitted argument
Radtran ==
    /\ res = NoCall
    /\ atm.variant = "solo"
    /\ geo # NoGeo
    /\ \E w \in WvlnArgs \cup {None, Grid2d, Vec(SubSeq(WvlnPool, 1, Len(KURUCZ[1])))},
          cpl \in BOOLEAN :
         res' = Call("radtran", w, geo.mu0, TRUE, cpl, FALSE,
                     radtran(geo, atm, w, cpl))
    /\ UNCHANGED <<atm, geo>>

Next ==
    \/ NewAtmosphere
    \/ NewGeometry
    \/ TauRayleigh
    \/ TauAerosols
    \/ TrnRayleigh
    \/ TrnAerosols
    \/ TrnMixture
    \/ TrnWater
    \/ TrnOzone
    \/ TrnOxygen
    \/ Radtran
    \/ Drop

Spec == Init /\ [][Next]_vars

-----------------------------------------------------------------------------
(* The same caller on the Atmosphere class of the uvagoa package            *)

\* cosines of solar zenith angles a caller passes: a scalar or a 1-d array
Mu0Args == {Sc(Num(0, 500000)), Vec(<<Scale, Num(0, 500000)>>)}

\* Atmosphere(p=..., o3=..., ...) of uvagoa: scalar fields or 1-d fields
NewUvagoaAtmosphere ==
    /\ res = NoCall
    /\ \E idx \in Windows(Len(ScenPool), MaxScen), scalar \in BOOLEAN,
          defaults \in BOOLEAN :
        LET F(f) == IF scalar THEN Sc(ScenPool[idx[1]][f])
                    ELSE Field(ScenPool, idx, f)
            r == UvagoaAtmosphereNew(F("p"), F("o3"), F("h2o"), F("alpha"),
                                     F("beta"),
                                     IF defaults THEN None ELSE F("w0"),
                                     IF defaults THEN None ELSE F("g"))
        IN  /\ atm' = IF r.err = "none" THEN r.out ELSE atm
            /\ res' = [Call("Atmosphere", None, None, FALSE, FALSE, FALSE, r)
                       EXCEPT !.out = <<>>]
            /\ UNCHANGED geo

UvagoaTauRayleigh ==
    /\ res = NoCall
    /\ atm.variant = "uvagoa"
    /\ \E w \in WvlnArgs, sqz \in BOOLEAN, alb \in BOOLEAN :
         res' = Call("tau_rayleigh", Microns(w), None, alb, FALSE, sqz,
                     uvagoa_tau_rayleigh(atm, Microns(w), sqz, alb))
    /\ UNCHANGED <<atm, geo>>

UvagoaTauAerosols ==
    /\ res = NoCall
    /\ atm.variant = "uvagoa"
    /\ \E w \in WvlnArgs, sqz \in BOOLEAN, alb \in BOOLEAN :
         res' = Call("tau_aerosols", Microns(w), None, alb, FALSE, sqz,
                     uvagoa_tau_aerosols(atm, Microns(w), sqz, alb))
    /\ UNCHANGED <<atm, geo>>

UvagoaTrnRayleigh ==
    /\ res = NoCall
    /\ atm.variant = "uvagoa"
    /\ \E w \in WvlnArgs, mu0 \in Mu0Args, sqz \in BOOLEAN, alb \in BOOLEAN :
         res' = Call("trn_rayleigh", Microns(w), mu0, alb, FALSE, sqz,
                     uvagoa_trn_rayleigh(atm, Microns(w), mu0, sqz, alb))
    /\ UNCHANGED <<atm, geo>>

NextUvagoa ==
    \/ NewAtmosphere
    \/ NewUvagoaAtmosphere
    \/ TauRayleigh
    \/ TauAerosols
    \/ UvagoaTauRayleigh
    \/ UvagoaTauAerosols
    \/ UvagoaTrnRayleigh
    \/ Drop

SpecUvagoa == Init /\ [][NextUvagoa]_vars

-----------------------------------------------------------------------------
(* A caller that constructs Geometry instances and calls their methods      *)

\* Scenes a caller builds a Geometry from: day of year, UTC time in
\* thousandths of a second, latitude, longitude and solar zenith angle in
\* degrees.  The first is a midday scene, the others sit on the ends of the
\* ranges.
GeoPool ==
    << [day |-> Int2Num(152), sec |-> 43200 * Kilo, lat |-> Int2Num(40),
        lon |-> 0 - Int2Num(3), sza |-> Int2Num(60)],
       [day |-> Int2Num(1), sec |-> 0, lat |-> 0 - Int2Num(90),
        lon |-> Int2Num(180), sza |-> 0],
       [day |-> Int2Num(366), sec |-> 86399 * Kilo, lat |-> Int2Num(90),
        lon |-> 0 - Int2Num(180), sza |-> Int2Num(180)] >>

GeoFields  == <<"day", "sec", "lat", "lon", "sza">>
GeoAngles  == {"lat", "lon", "sza"}
GeoOptions == {"sec", "lat", "lon", "sza"}

\* what a caller gets wrong: the field and the value it has in the last scene
NoFault == [f |-> "none", v |-> 0]
GeoFaults ==
    {[f |-> "day", v |-> 0], [f |-> "day", v |-> Int2Num(367)],
     [f |-> "sec", v |-> 0 - Kilo], [f |-> "sec", v |-> 86400 * Kilo],
     [f |-> "lat", v |-> 0 - Int2Num(91)], [f |-> "lat", v |-> Int2Num(91)],
     [f |-> "lon", v |-> 0 - Int2Num(181)], [f |-> "lon", v |-> Int2Num(181)],
     [f |-> "sza", v |-> 0 - Int2Num(1)], [f |-> "sza", v |-> Int2Num(181)]}

GeoModes == {"deg", "rad", "DEG", "grad"}

\* the argument for field f: the scenes idx of the pool, the fault in the
\* last one, angles in the unit of the mode, a scalar or a 1-d array
GeoArg(idx, f, scalar, mode, fault) ==
    LET raw(i)  == IF fault.f = f /\ i = Len(idx) THEN fault.v
                   ELSE GeoPool[idx[i]][f]
        unit(v) == IF f \in GeoAngles /\ Lower(mode) = "rad" THEN Radians(v)
                   ELSE v
    IN  IF scalar THEN Sc(unit(raw(1)))
        ELSE Vec([i \in 1..Len(idx) |-> unit(raw(i))])

\* the call Geometry(day, sec, lat, lon, sza, mode) and what it returns or
\* raises
GeometryCall(day, sec, lat, lon, sza, mode) ==
    [day |-> day, sec |-> sec, lat |-> lat, lon |-> lon, sza |-> sza,
     mode |-> mode, r |-> GeometryNew(day, sec, lat, lon, sza, mode)]

\* the calls with arguments of one common shape, of up to n scenes
GeometryCases(n) ==
    {GeometryCall(GeoArg(idx, "day", scalar, mode, fault),
                  IF "sec" \in present THEN GeoArg(idx, "sec", scalar, mode, fault)
                  ELSE None,
                  IF "lat" \in present THEN GeoArg(idx, "lat", scalar, mode, fault)
                  ELSE None,
                  IF "lon" \in present THEN GeoArg(idx, "lon", scalar, mode, fault)
                  ELSE None,
                  IF "sza" \in present THEN GeoArg(idx, "sza", scalar, mode, fault)
                  ELSE None,
                  mode) :
        <<idx, scalar, present, mode, fault>> \in
            {c \in Windows(Len(GeoPool), n) \X BOOLEAN \X (SUBSET GeoOptions)
                   \X GeoModes \X ({NoFault} \cup GeoFaults) :
                /\ c[2] => Len(c[1]) = 1
                /\ c[5] # NoFault =>
                     /\ c[4] \in {"deg", "rad"}
                     /\ c[3] \in {GeoOptions, {"sza", c[5].f} \ {"day"}}}}

\* arguments of any shapes: a scalar, 1-d arrays of one and n entries, a 2-d array
ShapePool(n) == {<<>>, <<1>>, <<n>>, <<1, n>>}

\* the shapes of the arguments: all of shape sb but the field d, of shape sd
ShapeChoices(fields, n) ==
    {c \in ShapePool(n) \X (fields \cup {"none"}) \X ShapePool(n) :
        (c[2] = "none") = (c[1] = c[3])}

ShapeOf(f, c) == IF f = c[2] THEN c[3] ELSE c[1]

GeometryShapeCases(n) ==
    {GeometryCall(Full(ShapeOf("day", c), GeoPool[1].day),
                  IF "sec" \in present THEN Full(ShapeOf("sec", c), GeoPool[1].sec)
                  ELSE None,
                  IF "lat" \in present THEN Full(ShapeOf("lat", c), GeoPool[1].lat)
                  ELSE None,
                  IF "lon" \in present THEN Full(ShapeOf("lon", c), GeoPool[1].lon)
                  ELSE None,
                  IF "sza" \in present THEN Full(ShapeOf("sza", c), GeoPool[1].sza)
                  ELSE None,
                  "deg") :
        <<c, present>> \in ShapeChoices({"day"} \cup GeoOptions, n) \X (SUBSET GeoOptions)}

\* what a caller may get wrong in one call: the shapes ("size": day is a
\* scalar beside 1-d arrays), the dimensions ("ndim": every argument is 2-d),
\* the mode, and the value of a field in the last scene
GeoChecks == {"size", "ndim", "mode", "day", "sec", "lat", "lon", "sza"}
WrongValue(f) == (CHOOSE fault \in GeoFaults : fault.f = f /\ fault.v > 0).v

\* the argument for field f of a call that gets the set wrong of things wrong
WrongArg(idx, f, wrong) ==
    LET raw(i) == IF f \in wrong /\ i = Len(idx) THEN WrongValue(f)
                  ELSE GeoPool[idx[i]][f]
    IN  IF "size" \in wrong /\ f = "day" THEN Sc(raw(Len(idx)))
        ELSE IF "ndim" \in wrong
        THEN Arr(<<1, Len(idx)>>, [i \in 1..Len(idx) |-> raw(i)])
        ELSE Vec([i \in 1..Len(idx) |-> raw(i)])

\* the calls that get several things wrong at once and leave options out, on
\* the first n scenes of the pool: a wrong size needs an option beside day,
\* and a wrong value its field
GeometryFaultCases(n) ==
    {[wrong |-> wrong, absent |-> absent]
       @@ GeometryCall(WrongArg(idx, "day", wrong),
                       IF "sec" \in absent THEN None ELSE WrongArg(idx, "sec", wrong),
                       IF "lat" \in absent THEN None ELSE WrongArg(idx, "lat", wrong),
                       IF "lon" \in absent THEN None ELSE WrongArg(idx, "lon", wrong),
                       IF "sza" \in absent THEN None ELSE WrongArg(idx, "sza", wrong),
                       IF "mode" \in wrong THEN "grad" ELSE "deg") :
        <<idx, wrong, absent>> \in
            {c \in {w \in Windows(Len(GeoPool), n) : w[1] = 1 /\ Len(w) = n}
                   \X (SUBSET GeoChecks) \X (SUBSET GeoOptions) :
                /\ c[2] \cap c[3] = {}
                /\ "size" \in c[2] => c[3] # GeoOptions}}

\* the calls of a kind: "values" of one common shape, "shapes" of any shapes,
\* "faults" with several things wrong
GeometryCallsOf(kind, n) ==
    IF kind = "shapes" THEN GeometryShapeCases(n)
    ELSE IF kind = "faults" THEN GeometryFaultCases(n)
    ELSE GeometryCases(n)

\* the result slot of a constructor call
Built(op, args, r) ==
    [args |-> args, msg |-> MsgOf(r)]
        @@ [Call(op, None, None, FALSE, FALSE, FALSE, r) EXCEPT !.out = <<>>]

\* Geometry(...), one of the calls of the kind: the instance replaces the
\* caller's one when there is one
BuildGeometry(kind, n) ==
    /\ res = NoCall
    /\ \E c \in GeometryCallsOf(kind, n) :
        /\ geo' = IF c.r.err = "none" THEN c.r.out ELSE geo
        /\ res' = Built("Geometry", [c EXCEPT !.r = c.r.err], c.r)
    /\ UNCHANGED atm

\* (a variant that takes the first day off self.day in place)
DayAngle_InPlace ==
    /\ res = NoCall
    /\ geo # NoGeo
    /\ res' = Call("day_angle", None, None, FALSE, FALSE, FALSE,
                   Return(<<day_angle(geo)>>))
    /\ geo' = [geo EXCEPT !.day = ASub(geo.day, One)]
    /\ UNCHANGED atm

DayAngle ==
    /\ res = NoCall
    /\ geo # NoGeo
    /\ res' = Call("day_angle", None, None, FALSE, FALSE, FALSE,
                   Return(<<day_angle(geo)>>))
    /\ UNCHANGED <<atm, geo>>

GeometricFactor ==
    /\ res = NoCall
    /\ geo # NoGeo
    /\ res' = Call("geometric_factor", None, None, FALSE, FALSE, FALSE,
                   Return(<<geometric_factor(geo)>>))
    /\ UNCHANGED <<atm, geo>>

Declination ==
    /\ res = NoCall
    /\ geo # NoGeo
    /\ res' = Call("declination", None, None, FALSE, FALSE, FALSE,
                   Return(<<declination(geo)>>))
    /\ UNCHANGED <<atm, geo>>

EquationOfTime ==
    /\ res = NoCall
    /\ geo # NoGeo
    /\ res' = Call("equation_of_time", None, None, FALSE, FALSE, FALSE,
                   Return(<<equation_of_time(geo)>>))
    /\ UNCHANGED <<atm, geo>>

ComputeSza ==
    /\ res = NoCall
    /\ geo # NoGeo
    /\ res' = Call("compute_sza", None, None, FALSE, FALSE, FALSE,
                   compute_sza(geo))
    /\ UNCHANGED <<atm, geo>>

NextGeometry ==
    \/ BuildGeometry("values", MaxGeo)
    \/ DayAngle
    \/ GeometricFactor
    \/ Declination
    \/ EquationOfTime
    \/ ComputeSza
    \/ Drop

SpecGeometry == Init /\ [][NextGeometry]_vars

-----------------------------------------------------------------------------
(* A caller that constructs Atmosphere instances                            *)

AtmFields == <<"p", "rho", "o3", "h2o", "alpha", "beta", "w0", "g">>

\* what a caller gets wrong: the field and the value it has in the last
\* scenario
AtmFaults ==
    {[f |-> "p", v |-> 0 - Scale],
     [f |-> "rho", v |-> 0 - Num(0, 100000)], [f |-> "rho", v |-> Num(1, 100000)],
     [f |-> "o3", v |-> 0 - Scale], [f |-> "h2o", v |-> 0 - Num(0, 100000)],
     [f |-> "alpha", v |-> 0 - Num(0, 100000)],
     [f |-> "beta", v |-> 0 - Num(0, 100000)],
     [f |-> "w0", v |-> 0 - Num(0, 100000)], [f |-> "w0", v |-> Num(1, 100000)],
     [f |-> "g", v |-> 0 - Num(1, 100000)], [f |-> "g", v |-> Num(1, 100000)]}

\* the argument for field f: the scenarios idx of the pool, the fault in the
\* last one, a scalar or a 1-d array
AtmArg(idx, f, scalar, fault) ==
    LET raw(i) == IF fault.f = f /\ i = Len(idx) THEN fault.v
                  ELSE ScenPool[idx[i]][f]
    IN  IF scalar THEN Sc(raw(1)) ELSE Vec([i \in 1..Len(idx) |-> raw(i)])

\* the call Atmosphere(p, rho, o3, h2o, alpha, beta, w0, g) and what it
\* returns or raises
AtmosphereCall(p, rho, o3, h2o, alpha, beta, w0, g) ==
    [p |-> p, rho |-> rho, o3 |-> o3, h2o |-> h2o, alpha |-> alpha,
     beta |-> beta, w0 |-> w0, g |-> g,
     r |-> AtmosphereNew(p, rho, o3, h2o, alpha, beta, w0, g)]

\* the calls with arguments of one common shape, of up to n scenarios, w0
\* and g given or left out
AtmosphereCases(n) ==
    {AtmosphereCall(AtmArg(idx, "p", scalar, fault), AtmArg(idx, "rho", scalar, fault),
                    AtmArg(idx, "o3", scalar, fault), AtmArg(idx, "h2o", scalar, fault),
                    AtmArg(idx, "alpha", scalar, fault),
                    AtmArg(idx, "beta", scalar, fault),
                    IF with_w0 THEN AtmArg(idx, "w0", scalar, fault) ELSE None,
                    IF with_g THEN AtmArg(idx, "g", scalar, fault) ELSE None) :
        <<idx, scalar, with_w0, with_g, fault>> \in
            {c \in Windows(Len(ScenPool), n) \X BOOLEAN \X BOOLEAN \X BOOLEAN
                   \X ({NoFault} \cup AtmFaults) :
                c[2] => Len(c[1]) = 1}}

AtmosphereShapeCases(n) ==
    {AtmosphereCall(Full(ShapeOf("p", c), ScenPool[1].p),
                    Full(ShapeOf("rho", c), ScenPool[1].rho),
                    Full(ShapeOf("o3", c), ScenPool[1].o3),
                    Full(ShapeOf("h2o", c), ScenPool[1].h2o),
                    Full(ShapeOf("alpha", c), ScenPool[1].alpha),
                    Full(ShapeOf("beta", c), ScenPool[1].beta),
                    IF with_w0 THEN Full(ShapeOf("w0", c), ScenPool[1].w0) ELSE None,
                    IF with_g THEN Full(ShapeOf("g", c), ScenPool[1].g) ELSE None) :
        <<c, with_w0, with_g>> \in
            ShapeChoices({AtmFields[i] : i \in 1..Len(AtmFields)}, n)
                \X BOOLEAN \X BOOLEAN}

AtmosphereCallsOf(kind, n) ==
    IF kind = "shapes" THEN AtmosphereShapeCases(n) ELSE AtmosphereCases(n)

\* Atmosphere(...), one of the calls of the kind: the instance replaces the
\* caller's one when there is one
BuildAtmosphere(kind, n) ==
    /\ res = NoCall
    /\ \E c \in AtmosphereCallsOf(kind, n) :
        /\ atm' = IF c.r.err = "none" THEN c.r.out ELSE atm
        /\ res' = Built("Atmosphere", [c EXCEPT !.r = c.r.err], c.r)
    /\ UNCHANGED geo

NextAtmosphere ==
    \/ BuildAtmosphere("values", MaxScen)
    \/ TauRayleigh
    \/ TauAerosols
    \/ Drop

SpecAtmosphere == Init /\ [][NextAtmosphere]_vars

-----------------------------------------------------------------------------
(* A caller that passes arguments of any shapes to the constructors         *)

NextShapes ==
    \/ BuildGeometry("shapes", 2)
    \/ BuildAtmosphere("shapes", 2)
    \/ Drop

SpecShapes == Init /\ [][NextShapes]_vars

-----------------------------------------------------------------------------
(* Scenario files: their text and numpy.loadtxt                            *)

\* A file is a sequence of lines, a line a sequence of fields between blanks
\* and a field a sequence of characters.  The characters are the digits, the
\* signs, the decimal point, the colon and letters that occur in no number
\* (no exponents, no "nan", no "inf").
Digits == <<"0", "1", "2", "3", "4", "5", "6", "7", "8", "9">>

IsDigit(c) == \E d \in 1..10 : Digits[d] = c

DigitVal(c) == (CHOOSE d \in 1..10 : Digits[d] = c) - 1

IsDigits(s) == Len(s) > 0 /\ \A k \in 1..Len(s) : IsDigit(s[k])

RECURSIVE NatOf(_)
NatOf(s) ==
    IF s = <<>> THEN 0
    ELSE 10 * NatOf(SubSeq(s, 1, Len(s) - 1)) + DigitVal(s[Len(s)])

IsSigned(s) == s # <<>> /\ s[1] \in {"+", "-"}
Unsigned(s) == IF IsSigned(s) THEN Tail(s) ELSE s

\* A number read from text: its sign, its integer part and the first six
\* digits of its fraction.
Dec(neg, int, micro) == [neg |-> neg, int |-> int, micro |-> micro]

\* the number as the fixed point of a field that counts in 1/unit; a number
\* the fixed point cannot hold is an infinity (the callers write such
\* numbers only in fields whose range is bounded)
Fixed(d, unit) ==
    IF d.int >= PInf \div unit THEN (IF d.neg THEN NInf ELSE PInf)
    ELSE (IF d.neg THEN 0 - 1 ELSE 1)
           * (d.int * unit + d.micro \div (Scale \div unit))

\* int(txt): [ok, v]
IntOf(s) ==
    IF IsDigits(Unsigned(s))
    THEN [ok |-> TRUE,
          v |-> (IF s[1] = "-" THEN 0 - 1 ELSE 1) * NatOf(Unsigned(s))]
    ELSE [ok |-> FALSE, v |-> 0]

\* (a variant that reads the digits after the point as an integer)
FloatOf_NoPlaces(s) ==
    LET u    == Unsigned(s)
        dots == {k \in 1..Len(u) : u[k] = "."}
        dot  == IF dots = {} THEN Len(u) + 1 ELSE CHOOSE k \in dots : TRUE
        ip   == SubSeq(u, 1, dot - 1)
        fp   == SubSeq(u, dot + 1, Len(u))
    IN  IF /\ Cardinality(dots) <= 1
           /\ \A k \in 1..Len(u) : k \in dots \/ IsDigit(u[k])
           /\ Len(ip) + Len(fp) > 0
        THEN [ok |-> TRUE, v |-> Dec(s[1] = "-", NatOf(ip), NatOf(fp))]
        ELSE [ok |-> FALSE, v |-> Dec(FALSE, 0, 0)]

\* float(txt): [ok, v]
FloatOf(s) ==
    LET u    == Unsigned(s)
        dots == {k \in 1..Len(u) : u[k] = "."}
        dot  == IF dots = {} THEN Len(u) + 1 ELSE CHOOSE k \in dots : TRUE
        ip   == SubSeq(u, 1, dot - 1)
        fp   == SubSeq(u, dot + 1, Len(u))
    IN  IF /\ Cardinality(dots) <= 1
           /\ \A k \in 1..Len(u) : k \in dots \/ IsDigit(u[k])
           /\ Len(ip) + Len(fp) > 0
        THEN [ok |-> TRUE,
              v |-> Dec(s[1] = "-", NatOf(ip),
                        NatOf([k \in 1..6 |-> IF k <= Len(fp) THEN fp[k] ELSE "0"]))]
        ELSE [ok |-> FALSE, v |-> Dec(FALSE, 0, 0)]

\* txt.split(sep)
RECURSIVE Split(_, _)
Split(s, sep) ==
    IF \A k \in 1..Len(s) : s[k] # sep THEN <<s>>
    ELSE LET k == CHOOSE i \in 1..Len(s) :
                      s[i] = sep /\ \A j \in 1..(i - 1) : s[j] # sep
         IN  <<SubSeq(s, 1, k - 1)>> \o Split(SubSeq(s, k + 1, Len(s)), sep)

\* (a variant that takes two numbers for minutes and seconds)
timestr2num_MinSec(txt) ==
    Bind(Split(txt, ":"), LAMBDA parts :
    Bind(<<>> \o [k \in 1..Len(parts) |-> IntOf(parts[k])], LAMBDA nums :
        IF \E k \in 1..Len(nums) : ~nums[k].ok THEN Raise("ValueError")
        ELSE IF Len(nums) = 1 THEN Return(<<nums[1].v>>)
        ELSE IF Len(nums) = 2 THEN Return(<<60 * nums[1].v + nums[2].v>>)
        ELSE IF Len(nums) = 3
        THEN Return(<<3600 * nums[1].v + 60 * nums[2].v + nums[3].v>>)
        ELSE Raise("ValueError")))

\* timestr2num of Geometry.from_file: the seconds of "S", "H:M" or "H:M:S"
timestr2num(txt) ==
    Bind(Split(txt, ":"), LAMBDA parts :
    Bind(<<>> \o [k \in 1..Len(parts) |-> IntOf(parts[k])], LAMBDA nums :
        IF \E k \in 1..Len(nums) : ~nums[k].ok THEN Raise("ValueError")
        ELSE IF Len(nums) = 1 THEN Return(<<nums[1].v>>)
        ELSE IF Len(nums) = 2 THEN Return(<<3600 * nums[1].v + 60 * nums[2].v>>)
        ELSE IF Len(nums) = 3
        THEN Return(<<3600 * nums[1].v + 60 * nums[2].v + nums[3].v>>)
        ELSE Raise("ValueError")))

\* the integer n as a number read from text
DecOfInt(n) == Dec(n < 0, Abs(n), 0)

\* the value loadtxt stores for the field txt of column col (from 0): the
\* converter of the column when it has one, float(txt) otherwise, the text
\* itself with dtype=bytes
FieldOf(txt, col, converters, dtype) ==
    IF dtype = "bytes" THEN Return(<<txt>>)
    ELSE IF col \in converters
    THEN Bind(timestr2num(txt), LAMBDA sec :
             IF sec.err # "none" THEN sec ELSE Return(<<DecOfInt(sec.out[1])>>))
    ELSE Bind(FloatOf(txt), LAMBDA num :
             IF num.ok THEN Return(<<num.v>>) ELSE Raise("ValueError"))

\* (a variant that keeps both axes of the table)
LoadShape_NoSqueeze(nrows, ncols) == <<nrows, ncols>>

\* the shape loadtxt returns: axes of length one are squeezed out
LoadShape(nrows, ncols) ==
    IF nrows = 1 /\ ncols = 1 THEN <<>>
    ELSE IF nrows = 1 THEN <<ncols>>
    ELSE IF ncols = 1 THEN <<nrows>>
    ELSE <<nrows, ncols>>

\* np.loadtxt(path, converters=..., dtype=...): converters is the set of the
\* columns read with timestr2num.  A converter for a column the file does
\* not have is an IndexError, lines of different lengths and a field that
\* cannot be converted are a ValueError.
loadtxt(file, converters, dtype) ==
    LET nrows == Len(file)
        ncols == Len(file[1])
    IN  IF \E c \in converters : c >= ncols THEN Raise("IndexError")
        ELSE IF \E i \in 1..nrows : Len(file[i]) # ncols THEN Raise("ValueError")
        ELSE Bind(<<>> \o [k \in 1..(nrows * ncols) |->
                      FieldOf(file[((k - 1) \div ncols) + 1][((k - 1) % ncols) + 1],
                              (k - 1) % ncols, converters, dtype)],
                  LAMBDA cells :
                      IF \E k \in 1..(nrows * ncols) : cells[k].err # "none"
                      THEN Raise("ValueError")
                      ELSE Return(<<Arr(LoadShape(nrows, ncols),
                                        [k \in 1..(nrows * ncols) |->
                                            cells[k].out[1]])>>))

\* data.ravel() and data.T of a 2-d array
Ravel(A) == Arr(<<Size(A)>>, A.data)

Transposed(A) ==
    Arr(<<A.shape[2], A.shape[1]>>,
        [k \in 1..Size(A) |->
            A.data[((k - 1) % A.shape[1]) * A.shape[2] + ((k - 1) \div A.shape[1]) + 1]])

\* the items of an array along its first axis, as unpacking and zip take them
Items(A) ==
    LET n == Size(A) \div A.shape[1]
    IN  [i \in 1..A.shape[1] |->
            Arr(Tail(A.shape), SubSeq(A.data, (i - 1) * n + 1, i * n))]

\* the items of a table as the arguments of a constructor: item i counts in
\* 1/units[i]
FixedArgs(items, units) ==
    [i \in 1..Len(items) |->
        Arr(items[i].shape,
            [k \in 1..Size(items[i]) |-> Fixed(items[i].data[k], units[i])])]

-----------------------------------------------------------------------------
(* Atmosphere.from_file                                                    *)

\* Atmosphere(*args): six arguments, or eight with w0 and g; fewer or more
\* are a TypeError of the call
AtmosphereOfArgs(args) ==
    Bind(<<>> \o args, LAMBDA a :
        IF Len(a) < 6 \/ Len(a) > 8 THEN Raise("TypeError")
        ELSE
        AtmosphereNew(a[1], a[2], a[3], a[4], a[5], a[6],
                      IF Len(a) > 6 THEN a[7] ELSE None,
                      IF Len(a) > 7 THEN a[8] ELSE None))

\* every field of an Atmosphere counts in 1/Scale
AtmUnits == [i \in 1..8 |-> Scale]

\* (a variant that reads the rows of the table as the arguments)
ScenarioArgs_Rows(data) == Items(data)

\* args = data.T: one argument per column of the table
ScenarioArgs(data) == Items(Transposed(data))

\* (a variant that takes every table of two columns for one scenario)
IsOneScenario_AnyRows(data) == data.shape[2] = 2

\* data.shape in [(3, 2), (4, 2)]: one scenario written two values a line
IsOneScenario(data) == data.shape \in {<<3, 2>>, <<4, 2>>}

\* Atmosphere.from_file on the text of the file
AtmosphereFromFile(file) ==
    Bind(loadtxt(file, {}, "float"), LAMBDA read :
        IF read.err # "none" THEN read
        ELSE Bind(AtLeast2d(read.out[1]), LAMBDA data :
            IF IsOneScenario(data)
            THEN AtmosphereOfArgs(FixedArgs(Items(Ravel(data)), AtmUnits))
            ELSE IF data.shape[2] \in {6, 8}
            THEN AtmosphereOfArgs(FixedArgs(ScenarioArgs(data), AtmUnits))
            ELSE Raise("ValueError")))

-----------------------------------------------------------------------------
(* A caller that loads instances from scenario files                        *)

\* The lines of an Atmosphere file: p, rho, o3, h2o, alpha, beta, w0 and g
\* of three scenarios.
AtmLines ==
    << <<<<"8", "0", "0">>, <<"0", ".", "2">>, <<"3", "0", "0">>,
         <<"0", ".", "4">>, <<"1", ".", "5">>, <<"0", ".", "0", "5">>,
         <<"0", ".", "8", "5">>, <<"0", ".", "9", "5">>>>,
       <<<<"8", "7", "5">>, <<"0", ".", "3">>, <<"3", "2", "0">>,
         <<"0", ".", "5">>, <<"1", ".", "4">>, <<"0", ".", "0", "1">>,
         <<"0", ".", "8">>, <<"0", ".", "9", "2">>>>,
       <<<<"8", "8", "0">>, <<"0", ".", "2", "5">>, <<"2", "9", "0">>,
         <<"0", ".", "4">>, <<"1", ".", "1">>, <<"0", ".", "0", "2">>,
         <<"0", ".", "8", "5">>, <<"0", ".", "9", "3">>>> >>

\* a word, and a surface albedo out of range
Word     == <<"f", "o", "o">>
BadRho   == <<"1", ".", "5">>

\* How a caller writes its scenarios: one a row, one a column, a single one
\* two values a line, or with a field missing in the last row.
FileLayouts == {"rows", "columns", "pairs", "ragged"}

\* the table of the scenarios idx of lines cut to ncols fields, with the
\* field col of the last one replaced by txt (col = 0: no field replaced)
TextRows(lines, idx, ncols, col, txt) ==
    [i \in 1..Len(idx) |->
        [j \in 1..ncols |->
            IF i = Len(idx) /\ j = col THEN txt ELSE lines[idx[i]][j]]]

\* the file of a table in a layout
TextFile(rows, layout) ==
    LET ncols == Len(rows[1])
    IN  IF layout = "columns"
        THEN [j \in 1..ncols |-> [i \in 1..Len(rows) |-> rows[i][j]]]
        ELSE IF layout = "pairs"
        THEN [k \in 1..(ncols \div 2) |-> <<rows[1][2 * k - 1], rows[1][2 * k]>>]
        ELSE IF layout = "ragged"
        THEN [i \in 1..Len(rows) |->
                 IF i = Len(rows) THEN SubSeq(rows[i], 1, ncols - 1) ELSE rows[i]]
        ELSE rows

\* a file a caller writes: its table, its layout and its text
FileOf(rows, layout) ==
    [rows |-> <<>> \o rows, layout |-> layout, text |-> <<>> \o TextFile(rows, layout)]

\* the layouts a table of nrows rows and ncols columns can be written in
LayoutsOf(nrows, ncols) ==
    {"rows", "columns"}
        \cup (IF nrows = 1 /\ ncols % 2 = 0 THEN {"pairs"} ELSE {})
        \cup (IF nrows > 1 /\ ncols > 1 THEN {"ragged"} ELSE {})

\* the files of up to n scenarios of 3 to 8 fields
AtmFiles(n) ==
    {FileOf(TextRows(AtmLines, c[1], c[2], c[4][1], c[4][2]), c[3]) :
        c \in {d \in Windows(Len(AtmLines), n) \X (3..8) \X FileLayouts
                      \X {<<0, <<>> >>, <<2, Word>>, <<2, BadRho>>} :
                  d[3] \in LayoutsOf(Len(d[1]), d[2])}}

\* Atmosphere.from_file(path): the instance replaces the caller's one when
\* there is one
LoadAtmosphere(n) ==
    /\ res = NoCall
    /\ \E f \in AtmFiles(n) :
        \E r \in {AtmosphereFromFile(f.text)} :
            /\ atm' = IF r.err = "none" THEN r.out ELSE atm
            /\ res' = Built("Atmosphere.from_file", f, r)
    /\ UNCHANGED geo

NextAtmFiles ==
    \/ LoadAtmosphere(MaxScen)
    \/ Drop

SpecAtmFiles == Init /\ [][NextAtmFiles]_vars

-----------------------------------------------------------------------------
(* Geometry.from_file                                                      *)

\* keys = {2: ["day", "sza"], 4: ["day", "sec", "lat", "lon"]}; day and the
\* angles count in 1/Scale, sec in 1/Kilo
GeoKeys == [n \in {2, 4} |->
               IF n = 2 THEN <<"day", "sza">> ELSE <<"day", "sec", "lat", "lon">>]

GeoUnits(n) == [i \in 1..n |-> IF GeoKeys[n][i] = "sec" THEN Kilo ELSE Scale]

\* (a variant that takes the rows of every table as the arguments)
SceneArgs_Rows(data) == Items(data)

\* args = data.ravel() if data.shape[0] == 1 else data.T, with the number of
\* fields data.shape[1]
SceneArgs(data) ==
    IF data.shape[1] = 1 THEN Items(Ravel(data)) ELSE Items(Transposed(data))

SceneTable(read) ==
    Bind(AtLeast2d(read.out[1]), LAMBDA data :
        Return(<<data.shape[2], SceneArgs(data)>>))

\* (a variant that reads a scene in column form whatever its length)
IsColumnForm_AnyLength(data) == Len(data.shape) = 1

\* data.shape == (4,)
IsColumnForm(data) == data.shape = <<4>>

\* the single geometry in column form: [int(day), timestr2num(time),
\* float(lat), float(lon)]; data[0, 3] of a shorter column is an IndexError
ColumnForm(data) ==
    IF Size(data) < 4 THEN Raise("IndexError")
    ELSE
    Bind(<<IntOf(data.data[1]), timestr2num(data.data[2]),
           FloatOf(data.data[3]), FloatOf(data.data[4])>>, LAMBDA v :
        IF ~v[1].ok \/ v[2].err # "none" \/ ~v[3].ok \/ ~v[4].ok
        THEN Raise("ValueError")
        ELSE Return(<<4, <<Sc(DecOfInt(v[1].v)), Sc(DecOfInt(v[2].out[1])),
                           Sc(v[3].v), Sc(v[4].v)>> >>))

\* the three attempts of Geometry.from_file to read the file: all numbers,
\* the second column as a time string, a single geometry in column form
SceneFile(file) ==
    Bind(loadtxt(file, {}, "float"), LAMBDA numbers :
        IF numbers.err = "none" THEN SceneTable(numbers)
        ELSE IF numbers.err # "ValueError" THEN numbers
        ELSE Bind(loadtxt(file, {1}, "float"), LAMBDA timed :
            IF timed.err = "none" THEN SceneTable(timed)
            ELSE IF timed.err \notin {"ValueError", "IndexError"} THEN timed
            ELSE Bind(loadtxt(file, {}, "bytes"), LAMBDA text :
                IF text.err # "none" THEN Raise("ValueError")
                ELSE IF IsColumnForm(text.out[1]) THEN ColumnForm(text.out[1])
                ELSE Raise("ValueError"))))

\* Geometry(**kwargs) with kwargs = dict(zip(keys[data.shape[1]], args)): a
\* KeyError is turned into a ValueError, zip stops at the shorter of the two
\* and a field without argument is None
GeometryOfArgs(n, args) ==
    IF n \notin DOMAIN GeoKeys THEN Raise("ValueError")
    ELSE Bind(FixedArgs(SubSeq(args, 1, IF Len(args) < n THEN Len(args) ELSE n),
                        GeoUnits(n)), LAMBDA a :
             LET kw(key) ==
                     IF \E i \in 1..Len(a) : GeoKeys[n][i] = key
                     THEN a[CHOOSE i \in 1..Len(a) : GeoKeys[n][i] = key]
                     ELSE None
             IN  GeometryNew(kw("day"), kw("sec"), kw("lat"), kw("lon"),
                             kw("sza"), "deg"))

\* Geometry.from_file on the text of the file
GeometryFromFile(file) ==
    Bind(SceneFile(file), LAMBDA scenes :
        IF scenes.err # "none" THEN scenes
        ELSE GeometryOfArgs(scenes.out[1], scenes.out[2]))

-----------------------------------------------------------------------------
(* A caller that loads Geometry instances from scenario files               *)

\* The lines of a Geometry file: day, time, latitude and longitude of three
\* scenes, and day and solar zenith angle of three scenes.
GeoPlaceLines ==
    << <<<<"1", "5", "2">>, <<"1", "2", ":", "0", "5", ":", "1", "0">>,
         <<"2", "8", ".", "3", "1">>, <<"-", "1", "6", ".", "5">>>>,
       <<<<"1">>, <<"0">>, <<"-", "9", "0">>, <<"1", "8", "0">>>>,
       <<<<"3", "6", "6">>, <<"2", "3", ":", "5", "9">>, <<"9", "0">>,
         <<"-", "1", "8", "0">>>> >>

GeoSzaLines ==
    << <<<<"1", "5", "2">>, <<"6", "0">>>>,
       <<<<"1">>, <<"0">>>>,
       <<<<"3", "6", "6">>, <<"5", "0", ".", "4">>>> >>

\* times a caller gets wrong, half a second past noon, and a minute
ManyParts  == <<"1", "2", ":", "4", "5", ":", "0", "0", ":", "1", "1">>
PartNotInt == <<"1", ".", "5", ":", "3", "0">>
Midnight   == <<"2", "4", ":", "0", "0">>
HalfSecond == <<"4", "3", "2", "0", "0", ".", "5">>
OneMinute  == <<"0", ":", "1">>

\* what a caller gets wrong in the last scene: the field and its text
PlaceFaults ==
    {<<0, <<>> >>, <<2, Word>>, <<2, ManyParts>>, <<2, PartNotInt>>,
     <<2, Midnight>>, <<2, HalfSecond>>, <<3, Word>>}

SzaFaults == {<<0, <<>> >>, <<2, Word>>, <<2, OneMinute>>}

\* the files of up to n scenes cut to 1 or more fields
GeoFilesOf(lines, faults, n) ==
    {FileOf(TextRows(lines, c[1], c[2], c[4][1], c[4][2]), c[3]) :
        c \in {d \in Windows(Len(lines), n) \X (1..Len(lines[1])) \X FileLayouts
                      \X faults :
                  d[3] \in LayoutsOf(Len(d[1]), d[2])}}

GeoFiles(n) ==
    GeoFilesOf(GeoPlaceLines, PlaceFaults, n) \cup GeoFilesOf(GeoSzaLines, SzaFaults, n)

\* Geometry.from_file(path): the instance replaces the caller's one when
\* there is one
LoadGeometry(n) ==
    /\ res = NoCall
    /\ \E f \in GeoFiles(n) :
        \E r \in {GeometryFromFile(f.text)} :
            /\ geo' = IF r.err = "none" THEN r.out ELSE geo
            /\ res' = Built("Geometry.from_file", f, r)
    /\ UNCHANGED atm

NextGeoFiles ==
    \/ LoadGeometry(MaxGeo)
    \/ Drop

SpecGeoFiles == Init /\ [][NextGeoFiles]_vars

-----------------------------------------------------------------------------
(* A caller that compares Geometry instances                                *)

\* the instances a caller builds from up to n scenes of its pool
GeometryPool(n) ==
    {c.r.out : c \in {d \in GeometryCases(n) : d.r.err = "none"}}

\* the instance built from the fields of self with the solar zenith angle
\* moved by d millionths of a radian, when there is one
Nudged(self, d) ==
    LET r == GeometryNew(self.day, self.sec, self.lat, self.lon,
                         AAdd(self.sza, Sc(d)), "rad")
    IN  IF r.err = "none" THEN {r.out} ELSE {}

\* what a caller compares self with: the instances of the pool, instances
\* next to self, None and a plain tuple of the fields of self
Others(self, pool) ==
    {Instance("Geometry", g) : g \in pool \cup Nudged(self, 1)
                                       \cup Nudged(self, 100)}
        \cup {Instance("NoneType", <<>>), Instance("tuple", self)}

\* self == other for two values the caller has built
CompareGeometry(n) ==
    /\ res = NoCall
    /\ \E pool \in {GeometryPool(n)} :
        \E self \in pool :
            \E other \in Others(self, pool) :
                res' = [args |-> [self |-> self, other |-> other]] @@
                          Call("Geometry.__eq__", None, None, FALSE, FALSE, FALSE,
                               Return(<<GeometryEq(self, other)>>))
    /\ UNCHANGED <<atm, geo>>

NextCompare ==
    \/ CompareGeometry(MaxGeo)
    \/ Drop

SpecCompare == Init /\ [][NextCompare]_vars

-----------------------------------------------------------------------------
(* The command line: _main of radtran.py                                   *)

\* The options of a command line are pairs of a key and a value, in the
\* order getopt returns them; paths are sequences of characters.
GeoTwo   == <<"g", "e", "o", "2", ".", "d", "a", "t">>
GeoThree == <<"g", "e", "o", "3", ".", "d", "a", "t">>
GeoBad   == <<"g", "e", "o", "b", "a", "d", ".", "d", "a", "t">>
AtmTwo   == <<"a", "t", "m", "2", ".", "d", "a", "t">>
AtmBad   == <<"a", "t", "m", "b", "a", "d", ".", "d", "a", "t">>
OutDat   == <<"i", "r", "r", ".", "d", "a", "t">>
OutPlain == <<".", "i", "r", "r">>

\* the files on disk: two and three scenes (day, sza), a single value, two
\* scenarios of 8 fields and a scenario of 7 fields
Disk ==
    [path \in {GeoTwo, GeoThree, GeoBad, AtmTwo, AtmBad} |->
        IF path = GeoTwo THEN SubSeq(GeoSzaLines, 1, 2)
        ELSE IF path = GeoThree THEN GeoSzaLines
        ELSE IF path = GeoBad THEN << <<GeoSzaLines[1][1]>> >>
        ELSE IF path = AtmTwo THEN SubSeq(AtmLines, 1, 2)
        ELSE << SubSeq(AtmLines[1], 1, 7) >>]

\* the options a caller gives
OptPool ==
    {<<"--geo", GeoTwo>>, <<"--geo", GeoThree>>, <<"--geo", GeoBad>>,
     <<"--atm", AtmTwo>>, <<"--atm", AtmBad>>,
     <<"--out", OutDat>>, <<"--out", OutPlain>>, <<"--no-coupling", <<>> >>}

MaxOpts == 4

\* the command lines of up to n options
OptLists(n) == UNION {[1..k -> OptPool] : k \in 0..n}

\* [x[1] for x in optlist if x[0] == key]
OptValues(optlist, key) ==
    LET sel == SelectSeq(optlist, LAMBDA x : x[1] = key)
    IN  [k \in 1..Len(sel) |-> sel[k][2]]

\* os.path.splitext: the extension starts at the last dot of the last
\* component, leading dots of the component apart
SplitExt(path) ==
    LET last(c) == IF \E k \in 1..Len(path) : path[k] = c
                   THEN CHOOSE k \in 1..Len(path) :
                            path[k] = c /\ \A j \in (k + 1)..Len(path) : path[j] # c
                   ELSE 0
    IN  IF last(".") > last("/")
           /\ \E k \in (last("/") + 1)..(last(".") - 1) : path[k] # "."
        THEN <<SubSeq(path, 1, last(".") - 1), SubSeq(path, last("."), Len(path))>>
        ELSE <<path, <<>> >>

\* (a variant that leaves out the extension)
OutNames_NoExt(out) ==
    <<SplitExt(out)[1] \o <<"_", "g", "l", "b">>,
      SplitExt(out)[1] \o <<"_", "d", "i", "r">>,
      SplitExt(out)[1] \o <<"_", "d", "i", "f">> >>

\* out_glb, out_dir and out_dif
OutNames(out) ==
    <<SplitExt(out)[1] \o <<"_", "g", "l", "b">> \o SplitExt(out)[2],
      SplitExt(out)[1] \o <<"_", "d", "i", "r">> \o SplitExt(out)[2],
      SplitExt(out)[1] \o <<"_", "d", "i", "f">> \o SplitExt(out)[2]>>

\* from_file(path) on the disk: a path without file is an error of open
GeometryFromPath(path) ==
    IF path \notin DOMAIN Disk THEN Raise("OSError") ELSE GeometryFromFile(Disk[path])

AtmosphereFromPath(path) ==
    IF path \notin DOMAIN Disk THEN Raise("OSError") ELSE AtmosphereFromFile(Disk[path])

\* sys.exit(code) after print(msg)
MainExit(code, msg) == [res EXCEPT !.pc = "exit", !.code = code, !.msg = msg]

\* python -m solo.radtran with a command line of up to n options
MainStart(n) ==
    /\ res = NoCall
    /\ \E optlist \in OptLists(n) :
        res' = [op |-> "_main", pc |-> "geo", optlist |-> optlist, code |-> 0,
                msg |-> "", names |-> <<>>, runs |-> 0, irr |-> <<>>,
                files |-> {}]
    /\ UNCHANGED <<atm, geo>>

\* Parse --geo option.
MainGeo ==
    /\ res.op = "_main" /\ res.pc = "geo"
    /\ \E opt \in {OptValues(res.optlist, "--geo")} :
        IF Len(opt) = 0
        THEN res' = MainExit(1, "Error: missing --geo option") /\ UNCHANGED geo
        ELSE IF Len(opt) # 1
        THEN res' = MainExit(1, "Error: multiple --geo options") /\ UNCHANGED geo
        ELSE \E r \in {GeometryFromPath(opt[1])} :
                 IF r.err # "none"
                 THEN /\ res' = MainExit(1, "Error: wrong Geometry input file")
                      /\ UNCHANGED geo
                 ELSE /\ res' = [res EXCEPT !.pc = "atm"]
                      /\ geo' = r.out
    /\ UNCHANGED atm

\* Parse --atm option.
MainAtm ==
    /\ res.op = "_main" /\ res.pc = "atm"
    /\ \E opt \in {OptValues(res.optlist, "--atm")} :
        IF Len(opt) = 0
        THEN res' = MainExit(2, "Error: missing --atm option") /\ UNCHANGED atm
        ELSE IF Len(opt) # 1
        THEN res' = MainExit(2, "Error: multiple --atm options") /\ UNCHANGED atm
        ELSE \E r \in {AtmosphereFromPath(opt[1])} :
                 IF r.err # "none"
                 THEN /\ res' = MainExit(2, "Error: wrong Atmosphere input file")
                      /\ UNCHANGED atm
                 ELSE /\ res' = [res EXCEPT !.pc = "out"]
                      /\ atm' = r.out
    /\ UNCHANGED geo

\* Parse --out option.
MainOut ==
    /\ res.op = "_main" /\ res.pc = "out"
    /\ \E opt \in {OptValues(res.optlist, "--out")} :
        IF Len(opt) = 0 THEN res' = MainExit(3, "Error: missing --out option")
        ELSE IF Len(opt) # 1 THEN res' = MainExit(3, "Error: multiple --out options")
        ELSE res' = [res EXCEPT !.pc = "run", !.names = OutNames(opt[1])]
    /\ UNCHANGED <<atm, geo>>

\* Parse --no-coupling option and run the radiative transfer solver: an
\* exception of the solver ends the process with a traceback and code 1
MainRun ==
    /\ res.op = "_main" /\ res.pc = "run"
    /\ \E r \in {radtran(geo, atm, None,
                          Len(OptValues(res.optlist, "--no-coupling")) = 0)} :
        IF r.err # "none"
        THEN res' = [MainExit(1, "Traceback") EXCEPT !.runs = res.runs + 1]
        ELSE res' = [res EXCEPT !.pc = "write", !.runs = res.runs + 1,
                                !.irr = r.out]
    /\ UNCHANGED <<atm, geo>>

\* Export the results into text files: np.savetxt of the next of irr_glb.T,
\* irr_dir.T and irr_dif.T, and the end of _main after the third
MainWrite ==
    /\ res.op = "_main" /\ res.pc = "write"
    /\ \E k \in {Cardinality(res.files) + 1} :
        res' = [res EXCEPT
                   !.files = res.files \cup
                                 {[name |-> res.names[k],
                                   data |-> Transposed(res.irr[k])]},
                   !.pc = IF k = 3 THEN "done" ELSE "write"]
    /\ UNCHANGED <<atm, geo>>

\* the process is gone, and its instances with it
MainEnd ==
    /\ res.op = "_main" /\ res.pc \in {"exit", "done"}
    /\ res' = NoCall
    /\ geo' = NoGeo
    /\ atm' = NoAtm

NextMain ==
    \/ MainStart(MaxOpts)
    \/ MainGeo
    \/ MainAtm
    \/ MainOut
    \/ MainRun
    \/ MainWrite
    \/ MainEnd

SpecMain == Init /\ [][NextMain]_vars

-----------------------------------------------------------------------------
(* A caller that calls every method of its instances                        *)

NextCalls ==
    \/ NewAtmosphere
    \/ NewGeometry
    \/ TauRayleigh
    \/ TauAerosols
    \/ TrnRayleigh
    \/ TrnAerosols
    \/ TrnMixture
    \/ TrnWater
    \/ TrnOzone
    \/ TrnOxygen
    \/ Radtran
    \/ DayAngle
    \/ GeometricFactor
    \/ Declination
    \/ EquationOfTime
    \/ ComputeSza
    \/ Drop

SpecCalls == Init /\ [][NextCalls]_vars

------------------------------------------------------------------------------
(* A caller that gets several arguments of Geometry wrong at once            *)

NextChecks ==
    \/ BuildGeometry("faults", MaxGeo)
    \/ Drop

SpecChecks == Init /\ [][NextChecks]_vars

------------------------------------------------------------------------------
(* A caller that calls trn_rayleigh of both Atmosphere classes               *)

NextRayleigh ==
    \/ NewAtmosphere
    \/ NewUvagoaAtmosphere
    \/ NewGeometry
    \/ TrnRayleigh
    \/ UvagoaTrnRayleigh
    \/ Drop

SpecRayleigh == Init /\ [][NextRayleigh]_vars

-----------------------------------------------------------------------------
(* Properties                                                              *)

\* what two computations of the same quantity may differ by in fixed point
Tol == 20

Close(x, y) == IF IsFinite(x) /\ IsFinite(y) THEN Abs(x - y) <= Tol ELSE x = y

\* element [i, j] of a 2-d array broadcast over rows and columns
Bc(A, i, j) ==
    A.data[((IF A.shape[1] = 1 THEN 0 ELSE i - 1) * A.shape[2])
           + (IF A.shape[2] = 1 THEN 1 ELSE j)]

AllFinite(A) == \A k \in 1..Size(A) : IsFinite(A.data[k])

\* the wavelengths in nm that a call of radtran works on
RadtranWvln == AtLeast1d(IF IsNone(res.wvln) THEN Vec(KURUCZ[1]) ELSE res.wvln)

RadtranReturned == res.op = "radtran" /\ res.err = "none"

\* C1: every entry [i, j] of the irradiances that radtran returns is
\* irr_glb = E0 * mu0 * t_glb * t_gas * 1 / (1 - rho * atm_albedo),
\* irr_dir = E0 * t_dir * t_gas and irr_dif = irr_glb - irr_dir * mu0, with E0
\* the table irradiance times geo.geometric_factor(), (t_glb, t_dir,
\* atm_albedo) from atm.trn_mixture at geo.mu0 with the albedo and the
\* caller's coupling flag, t_gas = trn_water * trn_ozone * trn_oxygen at
\* geo.mu0; and where irr_glb is a number, irr_dif + irr_dir * mu0 = irr_glb.
C1_RadtranFormulas ==
    RadtranReturned =>
        LET mix == trn_mixture(atm, Microns(RadtranWvln), geo.mu0, TRUE,
                               res.coupling).out
            wat == trn_water(atm, RadtranWvln, geo.mu0).out[1]
            ozo == trn_ozone(atm, RadtranWvln, geo.mu0).out[1]
            oxy == trn_oxygen(atm, RadtranWvln, geo.mu0).out[1]
            gf  == geometric_factor(geo)
            glb == res.out[1]
            dir == res.out[2]
            dif == res.out[3]
        IN  /\ Len(res.out) = 3
            /\ NDim(glb) = 2 /\ Shape(dir) = Shape(glb) /\ Shape(dif) = Shape(glb)
            /\ \A i \in 1..Shape(glb)[1], j \in 1..Shape(glb)[2] :
                 LET mu   == Bc(Col(geo.mu0), i, 1)
                     E0   == Mul(KURUCZ[2][j], Bc(Col(gf), i, 1))
                     tgas == Mul(Mul(Bc(wat, i, j), Bc(ozo, i, j)), Bc(oxy, i, j))
                     amp  == Div(Scale, Sub(Scale, Mul(Bc(Col(atm.rho), i, 1),
                                                       Bc(mix[4], i, j))))
                 IN  /\ At2(glb, i, j)
                          = Mul(Mul(Mul(Mul(E0, mu), Bc(mix[1], i, j)), tgas), amp)
                     /\ At2(dir, i, j) = Mul(Mul(E0, Bc(mix[2], i, j)), tgas)
                     /\ At2(dif, i, j) = Sub(At2(glb, i, j), Mul(At2(dir, i, j), mu))
                     /\ IsFinite(At2(glb, i, j)) =>
                          Add(At2(dif, i, j), Mul(At2(dir, i, j), mu)) = At2(glb, i, j)

\* radtran has returned irradiances that are numbers, with some diffuse
\* light, for several scenes and for a cosine mu0 that is not 1
C1_Witness ==
    /\ RadtranReturned
    /\ Shape(res.out[1])[1] > 1
    /\ AllFinite(res.out[1])
    /\ \E i \in 1..Shape(res.out[1])[1], j \in 1..Shape(res.out[1])[2] :
         /\ Bc(Col(geo.mu0), i, 1) < Scale
         /\ At2(res.out[2], i, j) > 0
         /\ At2(res.out[3], i, j) > 0

\* the arrays among the outputs of a call (the empty tuple is none)
IsArray(A) == A.kind = "array"

TrnReturned(op) == res.op = op /\ res.err = "none" /\ atm.variant = "solo"

\* C2: for Rayleigh optical depth tau and cosine mu0, trn_rayleigh returns
\* the direct transmittance exp(-tau / mu0), the global transmittance
\* ((2/3 + mu0) + (4/3 - mu0) * t_dir) / (2/3 + tau) and the diffuse
\* transmittance global - direct (each within the fixed-point tolerance).
C2_SobolevAsDocumented ==
    TrnReturned("trn_rayleigh") =>
        LET tau == tau_rayleigh(atm, res.wvln, FALSE).out[1]
            c   == SOBOLEV_C
        IN  \A i \in 1..Shape(res.out[1])[1], j \in 1..Shape(res.out[1])[2] :
              LET mu   == Bc(Mu0Col(res.mu0), i, 1)
                  t    == Bc(tau, i, j)
                  tdir == Exp(Div(Neg(t), mu))
              IN  /\ Close(At2(res.out[2], i, j), tdir)
                  /\ Close(At2(res.out[1], i, j),
                           Div(Add(Add(c[1], mu), Mul(Sub(c[2], mu), tdir)),
                               Add(c[1], t)))
                  /\ Close(At2(res.out[3], i, j),
                           Sub(At2(res.out[1], i, j), At2(res.out[2], i, j)))

\* C3: without coupling trn_mixture returns global = global_rayleigh *
\* global_aerosol, direct = direct_rayleigh * direct_aerosol, diffuse = that
\* global minus that direct and, when the albedo is asked for, albedo =
\* Rayleigh albedo + aerosol albedo, the terms being the outputs of
\* trn_rayleigh and of trn_aerosols without coupling for the same arguments.
C3_MixtureProduct ==
    (TrnReturned("trn_mixture") /\ ~res.coupling) =>
        LET ray == trn_rayleigh(atm, res.wvln, res.mu0, res.albedo).out
            aer == trn_aerosols(atm, res.wvln, res.mu0, res.albedo, FALSE).out
        IN  /\ Len(res.out) = IF res.albedo THEN 4 ELSE 3
            /\ \A n \in 1..3 : Shape(res.out[n]) = Shape(ray[1])
            /\ \A i \in 1..Shape(ray[1])[1], j \in 1..Shape(ray[1])[2] :
                 /\ At2(res.out[1], i, j) = Mul(At2(ray[1], i, j), At2(aer[1], i, j))
                 /\ At2(res.out[2], i, j) = Mul(At2(ray[2], i, j), At2(aer[2], i, j))
                 /\ At2(res.out[3], i, j)
                      = Sub(At2(res.out[1], i, j), At2(res.out[2], i, j))
            /\ res.albedo =>
                 /\ Shape(res.out[4]) = Shape(ray[4])
                 /\ \A i \in 1..Shape(ray[4])[1], j \in 1..Shape(ray[4])[2] :
                      At2(res.out[4], i, j) = Add(At2(ray[4], i, j), At2(aer[4], i, j))

\* trn_mixture without coupling has returned, with the albedo, for several
\* scenarios and wavelengths, an entry with direct < global < 1
C3_Witness ==
    /\ TrnReturned("trn_mixture") /\ ~res.coupling /\ res.albedo
    /\ Shape(res.out[1]) = <<2, 2>>
    /\ \E i \in 1..2, j \in 1..2 :
         /\ IsFinite(At2(res.out[1], i, j))
         /\ 0 < At2(res.out[2], i, j)
         /\ At2(res.out[2], i, j) < At2(res.out[1], i, j)
         /\ At2(res.out[1], i, j) < Scale
         /\ At2(res.out[4], i, j) > 0

\* C4: with coupling trn_mixture returns exactly what trn_aerosols returns
\* with coupling for the same arguments (the three transmittances and, when
\* asked for, the albedo), and that is what the aerosol formula gives for the
\* optical depth tau = tau_rayleigh + tau_aerosol, g = tau_aer * g / tau and
\* w0 = (tau_ray + w0 * tau_aer) / tau, the albedo being the sum of the
\* Rayleigh and aerosol albedos.
C4_MixtureCoupled ==
    (TrnReturned("trn_mixture") /\ res.coupling) =>
        LET aer   == trn_aerosols(atm, res.wvln, res.mu0, res.albedo, TRUE).out
            ray_t == tau_rayleigh(atm, res.wvln, TRUE).out
            aer_t == tau_aerosols(atm, res.wvln, TRUE).out
        IN  /\ Len(res.out) = IF res.albedo THEN 4 ELSE 3
            /\ \A n \in 1..Len(res.out) : IsArray(res.out[n]) /\ res.out[n] = aer[n]
            /\ \A i \in 1..Shape(res.out[1])[1], j \in 1..Shape(res.out[1])[2] :
                 LET tr   == Bc(ray_t[1], i, j)
                     ta   == Bc(aer_t[1], i, j)
                     tau  == Add(tr, ta)
                     g    == Div(Mul(ta, Bc(Col(atm.g), i, 1)), tau)
                     w0   == Div(Add(tr, Mul(Bc(Col(atm.w0), i, 1), ta)), tau)
                     ak   == Sqrt(Mul(Sub(Scale, w0), Sub(Scale, Mul(w0, g))))
                     r0   == Div(Add(Sub(ak, Scale), w0), Sub(Add(ak, Scale), w0))
                     tdir == Exp(Div(Neg(tau), Bc(Mu0Col(res.mu0), i, 1)))
                     rtk  == Mul(r0, Pow(tdir, ak))
                     tglb == Div(Mul(Sub(Scale, Mul(r0, r0)), Pow(tdir, ak)),
                                 Sub(Scale, Mul(rtk, rtk)))
                 IN  /\ At2(res.out[1], i, j) = tglb
                     /\ At2(res.out[2], i, j) = tdir
                     /\ At2(res.out[3], i, j) = Sub(tglb, tdir)
            /\ res.albedo =>
                 \A i \in 1..Shape(res.out[4])[1], j \in 1..Shape(res.out[4])[2] :
                     At2(res.out[4], i, j) = Add(Bc(ray_t[2], i, j), Bc(aer_t[2], i, j))

\* trn_mixture with coupling has returned, with the albedo, for several
\* scenarios and wavelengths, an entry with 0 < direct < global < 1
C4_Witness ==
    /\ TrnReturned("trn_mixture") /\ res.coupling /\ res.albedo
    /\ Shape(res.out[1]) = <<2, 2>>
    /\ \E i \in 1..2, j \in 1..2 :
         /\ IsFinite(At2(res.out[1], i, j))
         /\ 0 < At2(res.out[2], i, j)
         /\ At2(res.out[2], i, j) < At2(res.out[1], i, j)
         /\ At2(res.out[1], i, j) < Scale
         /\ At2(res.out[4], i, j) > 0

\* the calls that return transmittances, and the transmittances among the
\* outputs of the last call (the albedo is not one)
ScatterOps == {"trn_rayleigh", "trn_aerosols", "trn_mixture"}
GasOps     == {"trn_water", "trn_ozone", "trn_oxygen"}
TrnOps     == ScatterOps \cup GasOps

Transmittances == IF res.op \in ScatterOps THEN SubSeq(res.out, 1, 3) ELSE res.out

AllPositive(A) == \A k \in 1..Size(A) : A.data[k] > 0

\* C5: for a validated Atmosphere, any wavelength and mu0 > 0, every direct,
\* global and diffuse transmittance that trn_rayleigh, trn_aerosols and
\* trn_mixture return, and every value that trn_water, trn_ozone and
\* trn_oxygen return, lies in [0, 1] (to the fixed-point tolerance).
C5_TransmittanceRange ==
    (res.op \in TrnOps /\ res.err = "none" /\ atm.variant = "solo"
       /\ AllPositive(res.mu0)) =>
        \A n \in 1..Len(Transmittances) :
            \A k \in 1..Size(Transmittances[n]) :
                /\ Transmittances[n].data[k] >= 0 - Tol
                /\ Transmittances[n].data[k] <= Scale + Tol

\* C6: for a validated Geometry and Atmosphere, radtran and the trn_* methods
\* either raise an error and return nothing or return arrays whose every
\* entry is a defined number (no NaN, no infinity: nothing divided by zero).
C6_DefinedNumbers ==
    (res.op \in TrnOps \cup {"radtran"} /\ atm.variant = "solo") =>
        IF res.err # "none" THEN res.out = <<>>
        ELSE \A n \in 1..Len(res.out) : IsArray(res.out[n]) => AllFinite(res.out[n])

\* C7: when the caller passes radtran a grid of K wavelengths (a scalar or a
\* 1-d array), the three irradiances have K entries along the wavelength
\* axis, the direct irradiance [i, j] being the extraterrestrial irradiance
\* at the caller's wavelength j times the direct and gas transmittances at
\* that wavelength; a grid of more dimensions is rejected with a ValueError.
C7_CallerGrid ==
    (res.op = "radtran" /\ ~IsNone(res.wvln)) =>
        IF NDim(res.wvln) > 1 THEN res.err = "ValueError"
        ELSE /\ res.err = "none"
             /\ \A n \in 1..3 : Shape(res.out[n])[2] = Size(res.wvln)
             /\ LET mix == trn_mixture(atm, Microns(RadtranWvln), geo.mu0, TRUE,
                                       res.coupling).out
                    wat == trn_water(atm, RadtranWvln, geo.mu0).out[1]
                    ozo == trn_ozone(atm, RadtranWvln, geo.mu0).out[1]
                    oxy == trn_oxygen(atm, RadtranWvln, geo.mu0).out[1]
                    gf  == geometric_factor(geo)
                IN  \A i \in 1..Shape(res.out[2])[1], j \in 1..Size(res.wvln) :
                      At2(res.out[2], i, j)
                        = Mul(Mul(Mul(Interp1(RadtranWvln.data[j], KURUCZ[1], KURUCZ[2]),
                                      Bc(Col(gf), i, 1)),
                                  Bc(mix[2], i, j)),
                              Mul(Mul(Bc(wat, i, j), Bc(ozo, i, j)), Bc(oxy, i, j)))

\* C8: the trn_* methods fail with an IndexError exactly when the Atmosphere
\* has M # 1 scenarios and mu0 has a length that is neither 1 nor M; with
\* M = 1 a mu0 of any length is accepted; a failed call returns nothing.
C8_IndexError ==
    (res.op \in TrnOps /\ atm.variant = "solo") =>
        /\ (res.err = "IndexError")
             <=> (nscen(atm) # 1 /\ Size(res.mu0) \notin {1, nscen(atm)})
        /\ nscen(atm) = 1 => res.err = "none"
        /\ res.err # "none" => res.out = <<>>
        /\ res.err = "none" => Len(res.out) >= 1

\* a trn_* method has failed with an IndexError (three scenes against two
\* scenarios) ...
C8_Witness ==
    /\ res.op \in TrnOps /\ res.err = "IndexError"
    /\ nscen(atm) = 2 /\ Size(res.mu0) = 3

\* ... and trn_mixture has accepted several scenes for a single scenario
C8_WitnessSingle ==
    /\ res.op = "trn_mixture" /\ res.err = "none"
    /\ nscen(atm) = 1 /\ Size(res.mu0) = 3

\* the Atmosphere of scenario i alone
ScenarioOf(a, i) ==
    [f \in DOMAIN a |->
        IF f = "variant" THEN a.variant
        ELSE IF IsArray(a[f]) THEN Vec(<<a[f].data[i]>>) ELSE a[f]]

\* the optical depths (and albedo) of one scenario at one wavelength, by the
\* method of the last call
TauOf(a, w) ==
    IF a.variant = "solo"
    THEN (IF res.op = "tau_rayleigh" THEN tau_rayleigh(a, Sc(w), res.albedo)
          ELSE tau_aerosols(a, Sc(w), res.albedo)).out
    ELSE (IF res.op = "tau_rayleigh"
          THEN uvagoa_tau_rayleigh(a, Sc(w), FALSE, res.albedo)
          ELSE uvagoa_tau_aerosols(a, Sc(w), FALSE, res.albedo)).out

TauReturned == res.op \in {"tau_rayleigh", "tau_aerosols"} /\ res.err = "none"

\* C9: for an Atmosphere of M scenarios and K wavelengths (a scalar is K = 1)
\* tau_rayleigh and tau_aerosols return arrays of shape (M, K), entry [i, j]
\* being what scenario i alone gives at wavelength j alone; with the squeeze
\* flag of the uvagoa variant the axes of length 1 are removed, down to a 0-d
\* array for a scalar scenario and a scalar wavelength.
C9_TauShape ==
    TauReturned =>
        LET M == nscen(atm)
            K == Size(res.wvln)
        IN  /\ Len(res.out) = IF res.albedo THEN 2 ELSE 1
            /\ \A n \in 1..Len(res.out) :
                 /\ Shape(res.out[n])
                      = IF res.squeeze THEN SelectSeq(<<M, K>>, LAMBDA d : d # 1)
                        ELSE <<M, K>>
                 /\ Size(res.out[n]) = M * K
                 /\ \A i \in 1..M, j \in 1..K :
                      res.out[n].data[((i - 1) * K) + j]
                        = TauOf(ScenarioOf(atm, i), res.wvln.data[j])[n].data[1]

\* the uvagoa variant has returned a 0-d optical depth, squeezed, for a
\* scalar scenario and a scalar wavelength
C9_Witness ==
    /\ TauReturned /\ atm.variant = "uvagoa" /\ res.squeeze
    /\ Shape(atm.p) = <<>> /\ Shape(res.wvln) = <<>>
    /\ Shape(res.out[1]) = <<>>
    /\ res.out[1].data[1] > 0

\* an optical depth of shape (2, 2) whose entries all differ
C9_WitnessGrid ==
    /\ TauReturned /\ ~res.squeeze
    /\ Shape(res.out[1]) = <<2, 2>>
    /\ Cardinality({res.out[1].data[k] : k \in 1..4}) = 4

\* C10: for L scenes, M scenarios (L = M or one of them 1) and K wavelengths
\* the product trn_water * trn_ozone * trn_oxygen at geo.mu0 has the shape
\* (max(L, M), K), and row i is what scene i and scenario i give together
\* (the only scene or scenario when there is just one).
C10_GasProduct ==
    TrnReturned("trn_oxygen") =>
        LET L   == Size(res.mu0)
            M   == nscen(atm)
            K   == Size(res.wvln)
            gas == AMul(AMul(trn_water(atm, res.wvln, res.mu0).out[1],
                             trn_ozone(atm, res.wvln, res.mu0).out[1]),
                        res.out[1])
        IN  /\ (L = M \/ L = 1 \/ M = 1)
            /\ Shape(gas) = <<Max(L, M), K>>
            /\ \A i \in 1..Max(L, M), j \in 1..K :
                 LET a  == ScenarioOf(atm, IF M = 1 THEN 1 ELSE i)
                     mu == Sc(res.mu0.data[IF L = 1 THEN 1 ELSE i])
                     w  == Sc(res.wvln.data[j])
                 IN  At2(gas, i, j)
                       = Mul(Mul(trn_water(a, w, mu).out[1].data[1],
                                 trn_ozone(a, w, mu).out[1].data[1]),
                             trn_oxygen(a, w, mu).out[1].data[1])

\* trn_oxygen has returned for two scenes with different mu0, two scenarios
\* with different gas contents and two wavelengths
C10_Witness ==
    /\ TrnReturned("trn_oxygen")
    /\ Size(res.mu0) = 2 /\ nscen(atm) = 2 /\ Size(res.wvln) = 2
    /\ res.mu0.data[1] # res.mu0.data[2]
    /\ atm.h2o.data[1] # atm.h2o.data[2]
    /\ At2(res.out[1], 1, 1) # At2(res.out[1], 2, 1)

-----------------------------------------------------------------------------
(* The outputs of the transmittance methods                                *)

\* C11: trn_rayleigh, trn_aerosols and trn_mixture return exactly three
\* arrays (tglb, tdir, tdif) when return_albedo is False and exactly four,
\* the albedo array last, when it is True.
C11_ThreeOrFour ==
    (res.op \in ScatterOps /\ res.err = "none" /\ atm.variant = "solo") =>
        /\ Len(res.out) = IF res.albedo THEN 4 ELSE 3
        /\ \A n \in 1..Len(res.out) : IsArray(res.out[n])

\* C12: trn_oxygen returns an array of shape (nscen, nwvln), one row for
\* every scenario of the Atmosphere, for every mu0 it accepts.
C12_OxygenShape ==
    TrnReturned("trn_oxygen") =>
        Shape(res.out[1]) = <<nscen(atm), Size(res.wvln)>>

\* C13: at scenario (or scene) i and wavelength j trn_water returns exactly 1
\* when the exponent a interpolated at the wavelength is zero, whatever the
\* water column and mu0, and exp(-(k * h2o / mu0)^a) with the interpolated
\* coefficient k otherwise.
C13_WaterExponent ==
    TrnReturned("trn_water") =>
        \A i \in 1..Shape(res.out[1])[1], j \in 1..Size(res.wvln) :
            LET k  == Interp1(res.wvln.data[j], ABSCOEF[1], ABSCOEF[2])
                a  == Interp1(res.wvln.data[j], ABSCOEF[1], ABSCOEF[3])
                w  == Bc(Col(atm.h2o), i, 1)
                mu == Bc(Mu0Col(res.mu0), i, 1)
            IN  At2(res.out[1], i, j)
                  = IF a = 0 THEN Scale
                    ELSE Exp(Neg(Pow(Div(Mul(k, w), mu), a)))

\* trn_water has returned for a wet scenario at a wavelength with exponent
\* zero (1 exactly) and at one inside a water band (less than 1)
C13_Witness ==
    /\ TrnReturned("trn_water")
    /\ Size(res.wvln) = 2
    /\ Interp1(res.wvln.data[1], ABSCOEF[1], ABSCOEF[3]) = 0
    /\ Interp1(res.wvln.data[2], ABSCOEF[1], ABSCOEF[3]) > 0
    /\ atm.h2o.data[1] > 0
    /\ At2(res.out[1], 1, 1) = Scale
    /\ At2(res.out[1], 1, 2) < Scale

-----------------------------------------------------------------------------
(* Geometry: construction and the functions of the day                     *)

GeometryCalled == res.op = "Geometry"

AtmosphereCalled == res.op = "Atmosphere"

\* the shapes of the fields supplied in a call (a record of arguments)
SuppliedShapes(a, fields) ==
    {Shape(a[fields[i]]) : i \in {j \in 1..Len(fields) : ~IsNone(a[fields[j]])}}

\* the shapes are one shape, of a scalar or of a 1-d array
OneCommonShape(shapes) ==
    Cardinality(shapes) = 1 /\ \A sh \in shapes : Len(sh) <= 1

\* C14: constructing a Geometry or an Atmosphere fails with the shape error
\* of the class (ValueError, AttributeError) whenever two supplied fields
\* differ in shape, a scalar and a 1-d array included, or the common shape
\* has more than one dimension; every instance comes from fields of one
\* common scalar or 1-d shape, and all its fields have one length.
C14_ShapeMismatch ==
    /\ GeometryCalled =>
         IF OneCommonShape(SuppliedShapes(res.args, GeoFields))
         THEN res.err = "none" =>
                \A i \in 1..Len(GeoFields) :
                    IsNone(geo[GeoFields[i]])
                      \/ Shape(geo[GeoFields[i]]) = Shape(geo.mu0)
         ELSE res.err = "ValueError"
    /\ AtmosphereCalled =>
         IF OneCommonShape(SuppliedShapes(res.args, AtmFields))
         THEN /\ res.err = "none"
              /\ \A i \in 1..Len(AtmFields) :
                    Shape(atm[AtmFields[i]]) = <<nscen(atm)>>
         ELSE res.err = "AttributeError"

\* a Geometry call with a scalar day and an sza of two entries has failed
\* with the shape error, and an Atmosphere of two scenarios exists
C14_Witness ==
    /\ GeometryCalled /\ res.err = "ValueError"
    /\ Shape(res.args.day) = <<>> /\ Shape(res.args.sza) = <<2>>
    /\ atm # NoAtm /\ nscen(atm) = 2

\* an Atmosphere call with a 2-d shape common to all fields has failed
C14_WitnessNdim ==
    /\ AtmosphereCalled /\ res.err = "AttributeError"
    /\ SuppliedShapes(res.args, AtmFields) = {<<1, 2>>}

\* every element of the array A lies in lo..hi
AllIn(A, lo, hi) == \A k \in 1..Size(A) : A.data[k] >= lo /\ A.data[k] <= hi

\* the ranges of the fields of an instance; sec, lat and lon may be absent
InstanceInRange(g) ==
    /\ AllIn(g.day, Scale, 366 * Scale)
    /\ IsNone(g.sec) \/ AllIn(g.sec, 0, 86399 * Kilo)
    /\ IsNone(g.lat) \/ AllIn(g.lat, 0 - HALF_PI, HALF_PI)
    /\ IsNone(g.lon) \/ AllIn(g.lon, 0 - PI, PI)
    /\ AllIn(g.sza, 0, PI)

\* the arguments a of a call are in range, angles in the unit of the mode
\* ("deg" unless the mode is "rad")
ArgsInRange(a) ==
    LET deg == a.mode # "rad"
    IN  /\ AllIn(a.day, Scale, 366 * Scale)
        /\ IsNone(a.sec) \/ AllIn(a.sec, 0, 86399 * Kilo)
        /\ IsNone(a.lat)
             \/ (IF deg THEN AllIn(a.lat, 0 - Int2Num(90), Int2Num(90))
                 ELSE AllIn(a.lat, 0 - HALF_PI, HALF_PI))
        /\ IsNone(a.lon)
             \/ (IF deg THEN AllIn(a.lon, 0 - Int2Num(180), Int2Num(180))
                 ELSE AllIn(a.lon, 0 - PI, PI))
        /\ IsNone(a.sza)
             \/ (IF deg THEN AllIn(a.sza, 0, Int2Num(180))
                 ELSE AllIn(a.sza, 0, PI))

C17_SzaOrTimeAndPlace ==
    GeometryCalled =>
        LET a == res.args
        IN  /\ (IsNone(a.sza) /\ (IsNone(a.sec) \/ IsNone(a.lat) \/ IsNone(a.lon)))
                 => res.err = "ValueError"
            /\ (~IsNone(a.sza) /\ ArgsInRange(a) /\ Lower(a.mode) \in {"deg", "rad"})
                 => /\ res.err = "none"
                    /\ \A f \in {"sec", "lat", "lon"} : IsNone(geo[f]) <=> IsNone(a[f])
                    /\ ~IsNone(geo.sza) /\ ~IsNone(geo.mu0)

\* a Geometry has been built from day and sza alone, and sec, lat and lon
\* are absent in it
C17_Witness ==
    /\ GeometryCalled /\ res.err = "none"
    /\ ~IsNone(res.args.sza)
    /\ IsNone(res.args.sec) /\ IsNone(res.args.lat) /\ IsNone(res.args.lon)
    /\ IsNone(geo.sec) /\ IsNone(geo.lat) /\ IsNone(geo.lon)

\* a call without sza and without the latitude has failed
C17_WitnessMissing ==
    /\ GeometryCalled /\ res.err = "ValueError"
    /\ ArgsInRange(res.args) /\ res.args.mode = "deg"
    /\ IsNone(res.args.sza) /\ IsNone(res.args.lat)
    /\ ~IsNone(res.args.sec) /\ ~IsNone(res.args.lon)

\* the angle supplied as sza, in radians and 1-d
SuppliedSza(a) ==
    AtLeast1d(IF Lower(a.mode) = "rad" THEN a.sza ELSE Map1(Radians, a.sza))

\* C18: a Geometry constructed with sza supplied stores the supplied angle
\* in radians and its cosine as mu0, and compute_sza returns exactly the
\* stored sza, also when day, sec, lat and lon are all present.
C18_StoredSza ==
    /\ (GeometryCalled /\ res.err = "none" /\ ~IsNone(res.args.sza)) =>
          /\ geo.sza = SuppliedSza(res.args)
          /\ geo.mu0 = ACos(geo.sza)
          /\ compute_sza(geo) = Return(<<geo.sza>>)
    /\ res.op = "compute_sza" =>
          /\ res.err = "none"
          /\ res.out = <<geo.sza>>
          /\ geo.mu0 = ACos(geo.sza)

\* compute_sza has returned the stored angle of a Geometry that holds day,
\* sec, lat and lon as well, from which another angle follows
C18_Witness ==
    /\ res.op = "compute_sza" /\ res.err = "none"
    /\ ~IsNone(geo.sec) /\ ~IsNone(geo.lat) /\ ~IsNone(geo.lon)
    /\ res.out = <<geo.sza>>
    /\ SzaFromTime(geo, geo.lat) # geo.sza

\* the Geometry with every day replaced by day d
OnDay(g, d) == [g EXCEPT !.day = Full(Shape(g.day), d)]

\* what the last method called returns for the Geometry g
DayFunction(g) ==
    IF res.op = "geometric_factor" THEN geometric_factor(g)
    ELSE IF res.op = "declination" THEN declination(g)
    ELSE equation_of_time(g)

\* C19: day_angle is 0 at day 1 and 2 pi at day 366, and geometric_factor,
\* declination and equation_of_time return for a scene of day 366 the value
\* they return for day 1 (to the fixed-point tolerance).
C19_YearPeriod ==
    /\ res.op = "day_angle" =>
         \A k \in 1..Size(geo.day) :
            /\ geo.day.data[k] = Scale => res.out[1].data[k] = 0
            /\ geo.day.data[k] = 366 * Scale => Close(res.out[1].data[k], TWO_PI)
    /\ res.op \in {"geometric_factor", "declination", "equation_of_time"} =>
         \A k \in 1..Size(geo.day) :
            geo.day.data[k] = 366 * Scale =>
                Close(res.out[1].data[k], DayFunction(OnDay(geo, Scale)).data[k])

\* declination has returned for a Geometry with a scene of day 1 and one of
\* day 366, the same value for both, and another for a third day
C19_Witness ==
    /\ res.op = "declination"
    /\ \E i, j, k \in 1..Size(geo.day) :
         /\ geo.day.data[i] = Scale /\ geo.day.data[j] = 366 * Scale
         /\ Close(res.out[1].data[i], res.out[1].data[j])
         /\ ~Close(res.out[1].data[i], res.out[1].data[k])

-----------------------------------------------------------------------------
(* Atmosphere: construction                                                *)

\* the ranges of the fields of an instance or of the arguments of a call
\* (w0 and g may be None in a call)
AtmInRange(a) ==
    /\ AllIn(a.p, 0, PInf - 1)
    /\ AllIn(a.rho, 0, Scale)
    /\ AllIn(a.o3, 0, PInf - 1)
    /\ AllIn(a.h2o, 0, PInf - 1)
    /\ AllIn(a.alpha, 0, PInf - 1)
    /\ AllIn(a.beta, 0, PInf - 1)
    /\ IsNone(a.w0) \/ AllIn(a.w0, 0, Scale)
    /\ IsNone(a.g) \/ AllIn(a.g, 0 - Scale, Scale)

\* C16: every constructed Atmosphere has p >= 0, 0 <= rho <= 1, o3 >= 0,
\* h2o >= 0, alpha >= 0, beta >= 0, 0 <= w0 <= 1 and -1 <= g <= 1 in every
\* scenario; a call with a value outside its range in any scenario fails
\* with a ValueError, and a call with all values in range succeeds.
C16_AtmosphereRanges ==
    /\ atm # NoAtm => AtmInRange(atm) /\ ~IsNone(atm.w0) /\ ~IsNone(atm.g)
    /\ AtmosphereCalled =>
         res.err = IF AtmInRange(res.args) THEN "none" ELSE "ValueError"

\* an Atmosphere of two scenarios exists and a call with g = 1.1 in the
\* second of two scenarios has failed
C16_Witness ==
    /\ AtmosphereCalled /\ res.err = "ValueError"
    /\ Size(res.args.p) = 2 /\ ~IsNone(res.args.g)
    /\ res.args.g.data[2] > Scale /\ res.args.g.data[1] <= Scale
    /\ atm # NoAtm /\ nscen(atm) = 2

\* the arguments a with w0 and g, where left out, given as arrays of the
\* defaults in the shape of the other fields
WithDefaults(a) ==
    [a EXCEPT !.w0 = IF IsNone(a.w0) THEN Full(Shape(a.p), DEFAULT_W0) ELSE a.w0,
              !.g  = IF IsNone(a.g) THEN Full(Shape(a.p), DEFAULT_G) ELSE a.g]

\* C20: an Atmosphere constructed with w0 and/or g left out is the instance
\* constructed with w0 = 0.90 and/or g = 0.85 in every scenario: the field
\* has the length nscen of the others and every entry is the default.
C20_Defaults ==
    (AtmosphereCalled /\ res.err = "none"
       /\ (IsNone(res.args.w0) \/ IsNone(res.args.g))) =>
        LET a == WithDefaults(res.args)
        IN  /\ Return(atm) = AtmosphereNew(a.p, a.rho, a.o3, a.h2o, a.alpha,
                                           a.beta, a.w0, a.g)
            /\ IsNone(res.args.w0) =>
                 atm.w0 = Vec([i \in 1..nscen(atm) |-> Num(0, 900000)])
            /\ IsNone(res.args.g) =>
                 atm.g = Vec([i \in 1..nscen(atm) |-> Num(0, 850000)])

\* an Atmosphere of two scenarios has been built with w0 left out and g
\* given
C20_Witness ==
    /\ AtmosphereCalled /\ res.err = "none"
    /\ IsNone(res.args.w0) /\ ~IsNone(res.args.g)
    /\ nscen(atm) = 2 /\ Size(atm.w0) = 2
    /\ atm.g = res.args.g

-----------------------------------------------------------------------------
(* Atmosphere.from_file: properties                                        *)

AtmosphereLoaded == res.op = "Atmosphere.from_file"

\* every field of the table is a number
AllNumbers(rows) ==
    \A i \in 1..Len(rows) : \A j \in 1..Len(rows[i]) : FloatOf(rows[i][j]).ok

\* column j of the table as an array of numbers that count in 1/unit
TextColumn(rows, j, unit) ==
    Vec([i \in 1..Len(rows) |-> Fixed(FloatOf(rows[i][j]).v, unit)])

\* the constructor called with the columns of a table of 6 or 8 columns
AtmosphereOfColumns(rows) ==
    AtmosphereNew(TextColumn(rows, 1, Scale), TextColumn(rows, 2, Scale),
                  TextColumn(rows, 3, Scale), TextColumn(rows, 4, Scale),
                  TextColumn(rows, 5, Scale), TextColumn(rows, 6, Scale),
                  IF Len(rows[1]) = 8 THEN TextColumn(rows, 7, Scale) ELSE None,
                  IF Len(rows[1]) = 8 THEN TextColumn(rows, 8, Scale) ELSE None)

\* C21: Atmosphere.from_file on a file of N >= 1 rows of 6 or 8 numbers
\* returns what the constructor returns for the columns of the file: an
\* Atmosphere of N scenarios with these columns as fields, and with w0 = 0.90
\* and g = 0.85 in every scenario when the file has 6 columns.
C21_FromFileRows ==
    (/\ AtmosphereLoaded /\ res.args.layout = "rows"
     /\ Len(res.args.rows[1]) \in {6, 8} /\ AllNumbers(res.args.rows)) =>
        \E made \in {AtmosphereOfColumns(res.args.rows)} :
            /\ res.err = made.err
            /\ res.err = "none" =>
                 /\ atm = made.out
                 /\ nscen(atm) = Len(res.args.rows)
                 /\ atm.p = TextColumn(res.args.rows, 1, Scale)
                 /\ atm.beta = TextColumn(res.args.rows, 6, Scale)
                 /\ Len(res.args.rows[1]) = 6 =>
                      /\ atm.w0 = Vec([i \in 1..nscen(atm) |-> DEFAULT_W0])
                      /\ atm.g = Vec([i \in 1..nscen(atm) |-> DEFAULT_G])

\* a file of two rows of 6 columns has given an Atmosphere of two scenarios
\* with different pressures and the default w0
C21_Witness ==
    /\ AtmosphereLoaded /\ res.args.layout = "rows" /\ res.err = "none"
    /\ Len(res.args.rows) = 2 /\ Len(res.args.rows[1]) = 6
    /\ nscen(atm) = 2 /\ atm.p.data[1] # atm.p.data[2]
    /\ atm.w0.data[2] = DEFAULT_W0

\* the file is a table of numbers: lines of one length, every field a number
IsTable(f) == f.layout # "ragged" /\ AllNumbers(f.rows)

\* a caller's table of two scenarios of 3 or 4 fields written one scenario a
\* column: 3 or 4 lines of two values
IsTwoShortColumns(f) ==
    f.layout = "columns" /\ Len(f.rows) = 2 /\ Len(f.rows[1]) \in {3, 4}

\* the values of such a file in reading order, as one row
ReadingOrder(f) ==
    <<[k \in 1..(2 * Len(f.rows[1])) |-> f.rows[2 - (k % 2)][(k + 1) \div 2]]>>

\* the files from_file reads as scenarios of 6 or 8 fields: one scenario a
\* row, or a single scenario one value a line or two values a line
IsReadAsWritten(f) ==
    /\ Len(f.rows[1]) \in {6, 8}
    /\ f.layout = "rows" \/ (Len(f.rows) = 1 /\ f.layout \in {"columns", "pairs"})

-----------------------------------------------------------------------------
(* Geometry.from_file: properties                                          *)

GeometryLoaded == res.op = "Geometry.from_file"

\* column j of the scenes of a table as the constructor takes it: a number
\* for one scene, an array for more
SceneColumn(rows, j, unit) ==
    IF Len(rows) = 1 THEN Sc(Fixed(FloatOf(rows[1][j]).v, unit))
    ELSE TextColumn(rows, j, unit)

\* the times of the scenes in seconds
TimeColumn(rows) ==
    IF Len(rows) = 1 THEN Sc(Kilo * timestr2num(rows[1][2]).out[1])
    ELSE Vec([i \in 1..Len(rows) |-> Kilo * timestr2num(rows[i][2]).out[1]])

\* the scenes are (day, sza) or (day, time, lat, lon) with numbers for the
\* day and the angles and S, H:M or H:M:S for the time
IsSceneTable(f) ==
    /\ f.layout # "ragged" /\ Len(f.rows[1]) \in {2, 4}
    /\ \A i \in 1..Len(f.rows) : \A j \in 1..Len(f.rows[i]) :
           IF Len(f.rows[i]) = 4 /\ j = 2 THEN timestr2num(f.rows[i][j]).err = "none"
           ELSE FloatOf(f.rows[i][j]).ok

\* the constructor called with the fields of the scenes, angles in degrees
GeometryOfColumns(rows) ==
    IF Len(rows[1]) = 2
    THEN GeometryNew(SceneColumn(rows, 1, Scale), None, None, None,
                     SceneColumn(rows, 2, Scale), "deg")
    ELSE GeometryNew(SceneColumn(rows, 1, Scale), TimeColumn(rows),
                     SceneColumn(rows, 3, Scale), SceneColumn(rows, 4, Scale),
                     None, "deg")

\* C23: Geometry.from_file on a file of N >= 1 scenes (day, sza) or (day,
\* time, lat, lon), one scene a row, returns what the constructor returns
\* for the same field values with the angles in degrees; a single scene
\* written one value a line gives the same result as written in one row.
C23_FromFileScenes ==
    (/\ GeometryLoaded /\ IsSceneTable(res.args)
     /\ res.args.layout = "rows"
          \/ (res.args.layout = "columns" /\ Len(res.args.rows) = 1)) =>
        \E made \in {GeometryOfColumns(res.args.rows)} :
            /\ res.err = made.err
            /\ res.err = "none" =>
                 /\ geo = made.out
                 /\ ngeo(geo) = Len(res.args.rows)

\* a single scene with the time 12:05:10 written one value a line has given
\* a Geometry with sec = 43510 and the latitude 28.31 degrees in radians
C23_Witness ==
    /\ GeometryLoaded /\ res.err = "none"
    /\ res.args.layout = "columns" /\ Len(res.args.rows) = 1
    /\ Len(res.args.text) = 4
    /\ ngeo(geo) = 1 /\ geo.sec.data[1] = 43510 * Kilo
    /\ geo.lat.data[1] = Radians(Num(28, 310000))

\* the number of fields a scene of the file has for from_file: the values
\* of a line, or the lines of a file of one value a line; none when the
\* lines differ in length
FieldsPerScene(text) ==
    IF \E i \in 1..Len(text) : Len(text[i]) # Len(text[1]) THEN 0
    ELSE IF Len(text[1]) = 1 THEN Len(text)
    ELSE Len(text[1])

\* a time that is neither a number nor S, H:M or H:M:S
IsBadTime(txt) == timestr2num(txt).err # "none" /\ ~FloatOf(txt).ok

\* a scene of four fields has a time that cannot be parsed
HasBadTime(f) ==
    /\ Len(f.rows[1]) = 4
    /\ \E i \in 1..Len(f.rows) : IsBadTime(f.rows[i][2])

\* C24: Geometry.from_file fails with a ValueError, and returns no Geometry,
\* for every file that does not resolve to exactly 2 or 4 fields a scene
\* and for every file with a scene of 4 fields whose time cannot be parsed,
\* whichever of the three attempts to read the file is reached.
C24_FromFileErrors ==
    (/\ GeometryLoaded
     /\ FieldsPerScene(res.args.text) \notin {2, 4} \/ HasBadTime(res.args)) =>
        res.err = "ValueError"

\* a single scene written one value a line, with a time of four parts, has
\* failed with a ValueError in the third attempt
C24_Witness ==
    /\ GeometryLoaded /\ res.err = "ValueError"
    /\ res.args.layout = "columns" /\ Len(res.args.rows) = 1
    /\ Len(res.args.rows[1]) = 4 /\ res.args.rows[1][2] = ManyParts
    /\ loadtxt(res.args.text, {1}, "float").err = "IndexError"
    /\ IsColumnForm(loadtxt(res.args.text, {}, "bytes").out[1])

\* the time is one to three integers between colons
IsClockTime(txt) ==
    /\ Len(Split(txt, ":")) \in 1..3
    /\ \A k \in 1..Len(Split(txt, ":")) : IntOf(Split(txt, ":")[k]).ok

\* the seconds of the time S, H:M or H:M:S
SecondsOf(txt) ==
    LET n == [k \in 1..Len(Split(txt, ":")) |-> IntOf(Split(txt, ":")[k]).v]
    IN  IF Len(n) = 1 THEN n[1]
        ELSE IF Len(n) = 2 THEN 3600 * n[1] + 60 * n[2]
        ELSE 3600 * n[1] + 60 * n[2] + n[3]

\* the scenes of the file have four fields, one scene a row, and the day,
\* the latitude and the longitude of every scene are numbers
IsTimedTable(f) ==
    /\ f.layout = "rows" /\ Len(f.rows[1]) = 4
    /\ \A i \in 1..Len(f.rows) : \A j \in {1, 3, 4} : FloatOf(f.rows[i][j]).ok

\* the times of the scenes are all of the form, or all numbers
AllClockTimes(rows) == \A i \in 1..Len(rows) : IsClockTime(rows[i][2])
AllNumberTimes(rows) == \A i \in 1..Len(rows) : FloatOf(rows[i][2]).ok

\* C25: in Geometry.from_file a time S is S seconds, H:M is 3600 H + 60 M
\* seconds and H:M:S is 3600 H + 60 M + S seconds, and a file with a
\* converted time outside [0, 86399] is rejected by the range check of the
\* constructor.  A time of more than three parts, or with a part that is no
\* integer, is rejected with a ValueError unless every field of the file is
\* a number: such a file is read as numbers, and a time with a fraction is
\* cut to whole seconds when it is in [0, 86399].
C25_TimeFields ==
    (GeometryLoaded /\ IsTimedTable(res.args)) =>
        LET rows == res.args.rows
        IN  IF AllClockTimes(rows)
            THEN IF \A i \in 1..Len(rows) : SecondsOf(rows[i][2]) \in 0..86399
                 THEN /\ res.err = "none"
                      /\ \A i \in 1..Len(rows) :
                            geo.sec.data[i] = Kilo * SecondsOf(rows[i][2])
                 ELSE res.err = "ValueError"
            ELSE IF AllNumberTimes(rows)
            THEN IF \A i \in 1..Len(rows) :
                        Fixed(FloatOf(rows[i][2]).v, Kilo) \in 0..(86399 * Kilo)
                 THEN /\ res.err = "none"
                      /\ \A i \in 1..Len(rows) :
                            geo.sec.data[i] =
                                Kilo * (Fixed(FloatOf(rows[i][2]).v, Kilo) \div Kilo)
                 ELSE res.err = "ValueError"
            ELSE res.err = "ValueError"

\* a file with the times 0 and 23:59 has given the seconds 0 and 86340
C25_Witness ==
    /\ GeometryLoaded /\ IsTimedTable(res.args) /\ res.err = "none"
    /\ Len(res.args.rows) = 2
    /\ res.args.rows[1][2] = <<"0">>
    /\ res.args.rows[2][2] = <<"2", "3", ":", "5", "9">>
    /\ geo.sec = Vec(<<0, 86340 * Kilo>>)

\* (C25 as stated: every file with a time of more than three parts, or with
\* a part that is no integer, is rejected with a ValueError)
C25_AsStated ==
    (GeometryLoaded /\ IsTimedTable(res.args)) =>
        LET rows == res.args.rows
        IN  IF AllClockTimes(rows)
            THEN IF \A i \in 1..Len(rows) : SecondsOf(rows[i][2]) \in 0..86399
                 THEN /\ res.err = "none"
                      /\ \A i \in 1..Len(rows) :
                            geo.sec.data[i] = Kilo * SecondsOf(rows[i][2])
                 ELSE res.err = "ValueError"
            ELSE res.err = "ValueError"

-----------------------------------------------------------------------------
(* Geometry: equality                                                      *)

GeometryCompared == res.op = "Geometry.__eq__"

\* a field is absent in both instances, or present and agreeing in both
SameOrAbsent(a, b, unit) ==
    \/ IsNone(a) /\ IsNone(b)
    \/ ~IsNone(a) /\ ~IsNone(b) /\ AllClose(a, b, unit)

\* C26: two Geometry instances are equal (==) exactly when they have the
\* same ngeo, their day, sza and mu0 agree (as numpy.allclose has it) and
\* each of sec, lat and lon is absent in both or present and agreeing in
\* both; a Geometry never equals a value that is no Geometry, and every
\* Geometry equals itself.
C26_Equality ==
    GeometryCompared =>
        LET self  == res.args.self
            other == res.args.other
        IN  /\ other.class # "Geometry" => res.out[1] = FALSE
            /\ other = Instance("Geometry", self) => res.out[1] = TRUE
            /\ other.class = "Geometry" =>
                 res.out[1] =
                     (/\ ngeo(self) = ngeo(other.value)
                      /\ AllClose(self.day, other.value.day, Scale)
                      /\ AllClose(self.sza, other.value.sza, Scale)
                      /\ AllClose(self.mu0, other.value.mu0, Scale)
                      /\ SameOrAbsent(self.sec, other.value.sec, Kilo)
                      /\ SameOrAbsent(self.lat, other.value.lat, Scale)
                      /\ SameOrAbsent(self.lon, other.value.lon, Scale))

\* an instance of two scenes with sec, lat and lon has been found different
\* from one with the same day, sza, mu0, lat and lon and no sec
C26_Witness ==
    /\ GeometryCompared /\ res.out[1] = FALSE
    /\ res.args.other.class = "Geometry" /\ ngeo(res.args.self) = 2
    /\ res.args.self.day = res.args.other.value.day
    /\ res.args.self.sza = res.args.other.value.sza
    /\ res.args.self.mu0 = res.args.other.value.mu0
    /\ res.args.self.lat = res.args.other.value.lat
    /\ res.args.self.lon = res.args.other.value.lon
    /\ ~IsNone(res.args.self.sec) /\ IsNone(res.args.other.value.sec)

-----------------------------------------------------------------------------
(* The command line: properties                                            *)

MainRunning == res.op = "_main"

\* the option key is missing, given more than once, or (for a file option)
\* its file cannot be loaded
GeoCheckFails(optlist) ==
    \/ Len(OptValues(optlist, "--geo")) # 1
    \/ GeometryFromPath(OptValues(optlist, "--geo")[1]).err # "none"

AtmCheckFails(optlist) ==
    \/ Len(OptValues(optlist, "--atm")) # 1
    \/ AtmosphereFromPath(OptValues(optlist, "--atm")[1]).err # "none"

OutCheckFails(optlist) == Len(OptValues(optlist, "--out")) # 1

\* the code of the first failing check in the order --geo, --atm, --out
FirstFailure(optlist) ==
    IF GeoCheckFails(optlist) THEN 1
    ELSE IF AtmCheckFails(optlist) THEN 2
    ELSE IF OutCheckFails(optlist) THEN 3
    ELSE 0

\* the names of the files written so far
Written == {f.name : f \in res.files}

\* C27: the command line checks --geo, --atm and --out in this order and
\* exits at the first failing check, with code 1 when --geo is missing,
\* given more than once or its file cannot be loaded as a Geometry, with
\* code 2 in these cases for --atm and with code 3 when --out is missing or
\* given more than once; the solver runs once, and the three files stem +
\* "_glb", "_dir", "_dif" + extension are written, only after the three
\* checks have passed, and no file is written on an error exit.
C27_CommandLine ==
    MainRunning =>
        /\ FirstFailure(res.optlist) # 0 =>
             /\ res.runs = 0 /\ res.files = {}
             /\ res.pc \in {"exit"} \cup
                     (IF FirstFailure(res.optlist) = 1 THEN {"geo"}
                      ELSE IF FirstFailure(res.optlist) = 2 THEN {"geo", "atm"}
                      ELSE {"geo", "atm", "out"})
             /\ res.pc = "exit" => res.code = FirstFailure(res.optlist)
        /\ res.runs <= 1
        /\ res.runs = 1 => res.pc \in {"write", "done", "exit"}
        /\ res.files # {} => FirstFailure(res.optlist) = 0 /\ res.runs = 1
        /\ res.pc = "exit" => res.files = {} /\ res.code \in {1, 2, 3}
        /\ res.pc = "done" =>
             /\ res.code = 0 /\ res.runs = 1 /\ Cardinality(res.files) = 3
             /\ \E out \in {OptValues(res.optlist, "--out")[1]} :
                   /\ out = OutDat =>
                        Written = {<<"i", "r", "r", "_", "g", "l", "b", ".", "d", "a", "t">>,
                                   <<"i", "r", "r", "_", "d", "i", "r", ".", "d", "a", "t">>,
                                   <<"i", "r", "r", "_", "d", "i", "f", ".", "d", "a", "t">>}
                   /\ out = OutPlain =>
                        Written = {<<".", "i", "r", "r", "_", "g", "l", "b">>,
                                   <<".", "i", "r", "r", "_", "d", "i", "r">>,
                                   <<".", "i", "r", "r", "_", "d", "i", "f">>}

\* a run with --out irr.dat and --no-coupling before --geo and --atm has
\* written irr_glb.dat, irr_dir.dat and irr_dif.dat, with a row for each
\* wavelength and a column for each of the two scenes
C27_Witness ==
    /\ MainRunning /\ res.pc = "done" /\ res.code = 0
    /\ res.optlist[1] = <<"--out", OutDat>>
    /\ res.optlist[2] = <<"--no-coupling", <<>> >>
    /\ Written = {<<"i", "r", "r", "_", "g", "l", "b", ".", "d", "a", "t">>,
                  <<"i", "r", "r", "_", "d", "i", "r", ".", "d", "a", "t">>,
                  <<"i", "r", "r", "_", "d", "i", "f", ".", "d", "a", "t">>}
    /\ \A f \in res.files : f.data.shape = <<Len(KURUCZ[1]), 2>>

-----------------------------------------------------------------------------
(* Instances are read only                                                 *)

\* the calls that give the caller a new instance
Constructors == {"Atmosphere", "Geometry", "Atmosphere.from_file", "Geometry.from_file"}

\* the step is a call of a method of an instance, or of radtran
MethodCalled == res = NoCall /\ res' # NoCall /\ res'.op \notin Constructors

------------------------------------------------------------------------------
(* C29: the order of the checks of Geometry.__new__                          *)

GeometryChecked == res.op = "Geometry" /\ "wrong" \in DOMAIN res.args

\* the message of the first check that fails, in the order of the checks:
\* size, dimensions, mode, day, sec, lat, lon, sza, and with no sza the
\* missing sec, lat and lon; "" when every check passes
FirstFailing(wrong, absent, mode) ==
    IF "size" \in wrong THEN "size mismatch among input arguments"
    ELSE IF "ndim" \in wrong THEN "input arguments must be 0- or 1-dimensional"
    ELSE IF "mode" \in wrong THEN "invalid value for 'mode': " \o mode
    ELSE IF "day" \in wrong THEN "Julian days out of range"
    ELSE IF "sec" \in wrong THEN "UTC seconds out of range"
    ELSE IF "lat" \in wrong THEN "latitude values out of range"
    ELSE IF "lon" \in wrong THEN "longitude values out of range"
    ELSE IF "sza" \in wrong THEN "solar zenith angle values out of range"
    ELSE IF "sza" \notin absent THEN ""
    ELSE IF "sec" \in absent THEN "UTC seconds missing"
    ELSE IF "lat" \in absent THEN "latitude values missing"
    ELSE IF "lon" \in absent THEN "longitude values missing"
    ELSE ""

\* C29: a Geometry call that fails several checks raises the ValueError of
\* the first failing check in the order size, dimensions, mode, day, sec,
\* lat, lon, sza, then (with no sza) missing sec, lat, lon; it returns an
\* instance only when no check fails
C29_FirstCheck ==
    GeometryChecked =>
        /\ res.msg = FirstFailing(res.args.wrong, res.args.absent, res.args.mode)
        /\ (res.err = "none") = (res.msg = "")
        /\ res.err \in {"none", "ValueError"}

\* a latitude out of range in a call with neither time of day nor sza
C29_Witness ==
    /\ GeometryChecked
    /\ res.args.wrong = {"lat", "lon"}
    /\ res.args.absent = {"sec", "sza"}
    /\ res.msg = "latitude values out of range"
    /\ res.err = "ValueError"

------------------------------------------------------------------------------
(* C30: trn_rayleigh with no Rayleigh optical depth                          *)

\* trn_rayleigh has returned for an Atmosphere of the variant whose pressures
\* are all 0, and for cosines mu0 > 0
RayleighOnVacuum(variant) ==
    /\ res.op = "trn_rayleigh"
    /\ res.err = "none"
    /\ atm.variant = variant
    /\ \A k \in 1..Size(atm.p) : atm.p.data[k] = 0
    /\ \A k \in 1..Size(res.mu0) : res.mu0.data[k] > 0

\* every entry of the outputs tglb, tdir, tdif is the given one
EveryEntry(tglb, tdir, tdif) ==
    /\ \A k \in 1..Size(res.out[1]) : Close(res.out[1].data[k], tglb)
    /\ \A k \in 1..Size(res.out[2]) : Close(res.out[2].data[k], tdir)
    /\ \A k \in 1..Size(res.out[3]) : Close(res.out[3].data[k], tdif)

C30_SoloReached ==
    /\ RayleighOnVacuum("solo")
    /\ Size(res.out[1]) > 1

=============================================================================
